---------------------------- MODULE Spec2Model ----------------------------
(***************************************************************************)
(* schematix: the leaf Field value pipeline, conditional fields with       *)
(* scoped overrides, the DependencyResolver and Schema.transform.          *)
(*                                                                         *)
(* Python values are encoded as strings: "None", the strings '  3  ',      *)
(* '3', 'x', 'high' and the integers 3 and 9.  Callables are named and     *)
(* given by their tables over this domain.  An exception is a record that  *)
(* keeps what the message names (field names, offending value).            *)
(***************************************************************************)
EXTENDS Integers, Sequences, FiniteSets, TLC

VARIABLES
    fld,        \* the Field instance under extraction (its attributes)
    snap,       \* attributes of fld when the running/last extract was called
    pc,         \* position inside Field.extract
    args,       \* arguments of the running/last extract: data, computed
    evaluated,  \* result of _evaluateconditions, in dict order
    originals,  \* the saved attributes of _extractwithoverrides
    inov,       \* TRUE while inside _extractwithoverrides
    cur,        \* value flowing through the pipeline
    pend,       \* outcome computed inside try, delivered after finally
    trace,      \* stages run by the running/last extract: <<stage, in, out>>
    last,       \* outcome of the last finished extract
    fields,     \* a schema registry: fields in insertion order
    rpc,        \* position of the resolver / of Schema.transform
    order,      \* list returned by resolveorder
    rerr,       \* error raised by the resolver
    tdata,      \* data argument of Schema.transform
    idx,        \* loop position of Schema.transform
    result,     \* the result dict built by Schema.transform, in key order
    extracted,  \* names whose extract was invoked by the running pass
    tout,       \* outcome of the last Schema.transform
    comp,       \* a composite field: FallbackField, CombinedField, AccumulatedField
    cdata,      \* data argument of the composite's extract
    cpc,        \* position inside the composite's extract
    ci,         \* position of the loop over the children
    cacc,       \* CombinedField: result dict; AccumulatedField: values list
    cerrs,      \* CombinedField: the errors list (names of failed required children)
    ccalls,     \* children whose extract was invoked, in call order
    cout,       \* outcome of the composite's extract
    ccomputed,  \* the computed argument handed to the composite's extract
    acc,        \* AccumulatedField after its loop: values, separator, required
    aout,       \* outcome of the accumulation
    bmap,       \* the mapping given to Schema.bind: one entry per registry position
    bound,      \* BoundSchema._boundfields, in key order
    fields0,    \* the registry as it was when the schema class was defined
    bpc,        \* position of bind / BoundSchema.transform
    bdata,      \* data argument of BoundSchema.transform
    bidx,       \* loop position of BoundSchema.transform
    bresult,    \* the result dict built by BoundSchema.transform
    bout,       \* outcome of bind, then of BoundSchema.transform
    objs,       \* field objects by identity: the name attribute of each
    nsp,        \* namespace of a class statement: <<attribute, object>> in order
    inh,        \* _fields of the base class: <<key, object>> in order
    mreg,       \* _fields of the class that was created
    mpc,        \* position of the class definition
    mout,       \* error raised by the class definition
    verrs,      \* the errors dict built by Schema.validate, in key order
    vout,       \* value returned (or error raised) by Schema.validate
    sf,         \* a SourceField shared by two threads (its attributes)
    sf0,        \* the attributes of sf as it was constructed
    tpc,        \* per thread: position inside SourceField.extract
    tloc,       \* per thread: locals originalsource and loop position
    tdat,       \* per thread: the data argument
    tres,       \* per thread: outcome of extract
    valf,       \* a Field constructed with validator=...: its attributes
    valkw,      \* its _kwargs: the keyword arguments BaseField does not know
    valcalls,   \* the values the validator callable was called with
    valdata,    \* data argument of the running/last extract of valf
    valout,     \* outcome of the last extract of valf
    store,      \* a data or target object as a tree: path -> dict, object or value
    store0,     \* the tree as it was when the operation was called
    pf,         \* the field whose source / target path is resolved
    ppc,        \* position inside _getsourcevalue / assign
    pparts,     \* the path parts of the running loop
    pidx,       \* loop position in pparts
    pcurr,      \* the local `current`: a path of the tree
    pout,       \* raw value returned, or error raised
    rf,         \* a conditional Field shared by two threads (its attributes)
    rf0,        \* the attributes of rf as it was constructed
    rtpc,       \* per thread: position inside Field.extract
    rtargs,     \* per thread: the arguments data and computed
    rtloc,      \* per thread: locals evaluated, originals and the pending outcome
    rtres,      \* per thread: outcome of extract
    overlapped  \* history: a thread saved originals while the other was inside
                \* its save .. restore window

fvars == <<fld, snap, pc, args, evaluated, originals, inov, cur, pend, trace, last>>
tvars == <<tdata, idx, result, extracted, tout>>
svars == <<fields, rpc, order, rerr, tdata, idx, result, extracted, tout>>
cvars == <<comp, cdata, cpc, ci, cacc, cerrs, ccalls, cout, ccomputed>>
avars == <<acc, aout>>
bvars == <<bmap, bound, fields0, bpc, bdata, bidx, bresult, bout>>
mvars == <<objs, nsp, inh, mreg, mpc, mout>>
wvars == <<verrs, vout>>
kvars == <<sf, sf0, tpc, tloc, tdat, tres>>
pvars == <<valf, valkw, valcalls, valdata, valout>>
hvars == <<store, store0, pf, ppc, pparts, pidx, pcurr, pout>>
rvars == <<rf, rf0, rtpc, rtargs, rtloc, rtres, overlapped>>
zvars == <<pvars, hvars, rvars>>
xvars == <<cvars, avars, bvars, mvars, wvars, kvars, zvars>>
vars  == <<fld, snap, pc, args, evaluated, originals, inov, cur, pend, trace, last,
           fields, rpc, order, rerr, tdata, idx, result, extracted, tout, xvars>>

---------------------------------------------------------------------------
(* Values *)

NoneV  == "None"
SPad3  == "'  3  '"
S3     == "'3'"
SX     == "'x'"
SHigh  == "'high'"
I3     == "3"
I9     == "9"
Values == {NoneV, SPad3, S3, SX, SHigh, I3, I9}
IsStr(v) == v \in {SPad3, S3, SX, SHigh}

MISSING == "<missing>"      \* the key is not in the dict
NoValue == "-"              \* an error message that names no value

NoErr == [kind |-> "none", names |-> {}, value |-> NoValue, wrap |-> <<>>]
Err(k, ns, v) == [kind |-> k, names |-> ns, value |-> v, wrap |-> <<>>]
Ok(v)   == [ok |-> TRUE,  val |-> v,     err |-> NoErr]
Fail(e) == [ok |-> FALSE, val |-> NoneV, err |-> e]

---------------------------------------------------------------------------
(* Callables: transform, type, mapping table, mapper *)

NoCallable == "none"        \* the attribute is None
NoSource   == "<nosource>"  \* source is None
NoName     == "<noname>"    \* name is None

\* str.strip: strips a string, TypeError on a non-string
CallTransform(t, v) ==
    IF t = "strip"
    THEN IF IsStr(v) THEN Ok(IF v = SPad3 THEN S3 ELSE v)
         ELSE Fail(Err("TransformError", {}, NoValue))
    ELSE Fail(Err("TransformError", {}, NoValue))

\* int(value): parses '3' and '  3  ', keeps an int, ValueError otherwise
IntCast(v) ==
    IF v \in {SPad3, S3, I3} THEN Ok(I3)
    ELSE IF v = I9 THEN Ok(I9)
    ELSE Fail(Err("TypeCastFailure", {}, v))

\* the lookup table {3: 'high'}
MappingKeys(m)   == IF m = "codes" THEN {I3} ELSE {}
MappingGet(m, v) == SHigh

\* mapper(value, mapping): knows 9, raises KeyError on anything else
CallMapper(mp, v, m) ==
    IF mp = "nearest" /\ v = I9 THEN Ok(SHigh)
    ELSE Fail(Err("MapperError", {}, NoValue))

---------------------------------------------------------------------------
(* The Field instance: its attributes after construction *)

MkField(n) ==
    [name |-> n, required |-> FALSE, default |-> NoneV, transform |-> NoCallable,
     source |-> NoSource, target |-> NoSource, type |-> NoCallable, choices |-> {},
     mapping |-> NoCallable, mapper |-> NoCallable, transient |-> FALSE,
     conditional |-> FALSE, dependencies |-> <<>>, conditions |-> <<>>]

---------------------------------------------------------------------------
(* The stages of the value pipeline; data is a dict: key -> value or MISSING *)

GetSourceValue(f, data) ==
    IF f.source = NoSource THEN f.default
    ELSE IF f.source \notin DOMAIN data THEN f.default
    ELSE IF data[f.source] = MISSING THEN f.default
    ELSE data[f.source]

ApplyTransform(f, v) ==
    IF f.transform # NoCallable /\ v # NoneV THEN CallTransform(f.transform, v)
    ELSE Ok(v)

ApplyType(f, v) ==
    IF f.type = NoCallable \/ v = NoneV THEN Ok(v)
    ELSE IntCast(v)

ApplyMapping(f, v) ==
    IF v = NoneV THEN Ok(NoneV)
    ELSE IF MappingKeys(f.mapping) = {} THEN Ok(v)
    ELSE IF v \in MappingKeys(f.mapping) THEN Ok(MappingGet(f.mapping, v))
    ELSE IF f.mapper = NoCallable
         THEN IF f.default # NoneV THEN Ok(f.default)
              ELSE Fail(Err("MappingLookupFailure", {}, v))
    ELSE LET r == CallMapper(f.mapper, v, f.mapping)
         IN  IF r.ok THEN r
             ELSE IF f.default # NoneV THEN Ok(f.default)
             ELSE Fail(Err("MappingFailed", {}, v))

ValidateChoices(f, v) ==
    IF f.choices = {} THEN Ok(v)
    ELSE IF v \notin f.choices THEN Fail(Err("ChoiceViolation", {}, v))
    ELSE Ok(v)

Validate(f, v) == Ok(v)

CheckRequired(f, v) ==
    IF f.required /\ v = NoneV
    THEN Fail(Err("RequiredValueMissing", {f.name}, NoValue))
    ELSE Ok(v)

FirstStage == "source"
LastStage  == "required"
Stages == {"source", "transform", "type", "mapping", "choices", "validate", "required"}

StageApply(stage, f, data, v) ==
    CASE stage = "source"    -> Ok(GetSourceValue(f, data))
      [] stage = "transform" -> ApplyTransform(f, v)
      [] stage = "type"      -> ApplyType(f, v)
      [] stage = "mapping"   -> ApplyMapping(f, v)
      [] stage = "choices"   -> ValidateChoices(f, v)
      [] stage = "validate"  -> Validate(f, v)
      [] stage = "required"  -> CheckRequired(f, v)

\* a plausible slip: the type cast placed before the transform
NextStageCastFirst(stage) ==
    CASE stage = "source"    -> "type"
      [] stage = "type"      -> "transform"
      [] stage = "transform" -> "mapping"
      [] stage = "mapping"   -> "choices"
      [] stage = "choices"   -> "validate"
      [] stage = "validate"  -> "required"
      [] stage = "required"  -> "required"

\* the statement sequence of the pipeline
NextStage(stage) ==
    CASE stage = "source"    -> "transform"
      [] stage = "transform" -> "type"
      [] stage = "type"      -> "mapping"
      [] stage = "mapping"   -> "choices"
      [] stage = "choices"   -> "validate"
      [] stage = "validate"  -> "required"
      [] stage = "required"  -> "required"

RECURSIVE RunFrom(_, _, _, _)
RunFrom(stage, f, data, v) ==
    LET r == StageApply(stage, f, data, v)
    IN  IF ~r.ok THEN r
        ELSE IF stage = LastStage THEN r
        ELSE RunFrom(NextStage(stage), f, data, r.val)

RunPipeline(f, data) == RunFrom(FirstStage, f, data, NoneV)

---------------------------------------------------------------------------
(* Conditional fields: condition evaluators and the scoped override *)

\* evaluators are called positionally with the dependency values
CallEvaluator(e, depvals) ==
    CASE e = "fst"    -> Ok(depvals[1])
      [] e = "lst"    -> Ok(depvals[Len(depvals)])
      [] e = "isNone" -> Ok(depvals[1] = NoneV)
      [] e = "kStrip" -> Ok("strip")
      [] e = "kInt"   -> Ok("int")
      [] e = "kThree" -> Ok({I3})
      [] e = "kCodes" -> Ok("codes")
      [] e = "kAlt"   -> Ok("alt")
      [] OTHER        -> Fail(Err("EvaluatorError", {}, NoValue))

InComputed(computed, dep) == dep \in DOMAIN computed /\ computed[dep] # MISSING

\* a plausible slip: the dependency values gathered in reverse order
DepValsReversed(f, computed) ==
    [i \in 1..Len(f.dependencies) |->
        computed[f.dependencies[Len(f.dependencies) + 1 - i]]]

DepVals(f, computed) ==
    [i \in 1..Len(f.dependencies) |-> computed[f.dependencies[i]]]

EvaluateConditions(f, computed) ==
    LET deps  == f.dependencies
        conds == f.conditions
        gone  == {i \in 1..Len(deps) : ~InComputed(computed, deps[i])}
        first(S) == CHOOSE i \in S : \A j \in S : i <= j
    IN  IF deps = <<>>
        THEN Fail(Err("NoDependencies", {f.name}, NoValue))
        ELSE IF conds = <<>>
        THEN Fail(Err("NoConditions", {f.name}, NoValue))
        ELSE IF gone # {}
        THEN Fail(Err("DependencyNotAvailable", {f.name, deps[first(gone)]}, NoValue))
        ELSE LET depvals == DepVals(f, computed)
                 evs  == [i \in 1..Len(conds) |-> CallEvaluator(conds[i][2], depvals)]
                 bad  == {i \in 1..Len(conds) : ~evs[i].ok}
             IN  IF bad # {}
                 THEN Fail([Err("ConditionFailed", {f.name}, NoValue)
                               EXCEPT !.wrap = <<conds[first(bad)][1]>>])
                 ELSE Ok([i \in 1..Len(conds) |-> <<conds[i][1], evs[i].val>>])

HasKey(ev, k) == \E i \in 1..Len(ev) : ev[i][1] = k
ValueOf(ev, k) == ev[CHOOSE i \in 1..Len(ev) : ev[i][1] = k][2]

SavedProps == {"required", "default", "transform", "choices", "type", "mapping"}

SaveOriginals(f) == [p \in SavedProps |-> f[p]]

RECURSIVE ApplyFrom(_, _, _)
ApplyFrom(f, ev, i) ==
    IF i > Len(ev) THEN f
    ELSE LET prop == ev[i][1]
         IN  IF prop # "value" /\ prop \in DOMAIN f
             THEN ApplyFrom([f EXCEPT ![prop] = ev[i][2]], ev, i + 1)
             ELSE ApplyFrom(f, ev, i + 1)

ApplyOverrides(f, ev) == ApplyFrom(f, ev, 1)

\* a plausible slip: the finally block restores nothing
RestoreNothing(f, orig) == f

\* the finally block of _extractwithoverrides
RestoreOriginals(f, orig) ==
    [p \in DOMAIN f |-> IF p \in DOMAIN orig THEN orig[p] ELSE f[p]]

\* Field.extract as one call: the outcome and the attributes left behind
ExtractOp(f, data, hascomputed, computed) ==
    IF f.conditional
    THEN IF ~hascomputed
         THEN [res |-> Fail(Err("RequiresComputed", {f.name}, NoValue)), fld |-> f]
         ELSE LET ev == EvaluateConditions(f, computed)
              IN  IF ~ev.ok THEN [res |-> Fail(ev.err), fld |-> f]
                  ELSE IF HasKey(ev.val, "value")
                  THEN [res |-> Ok(ValueOf(ev.val, "value")), fld |-> f]
                  ELSE LET orig == SaveOriginals(f)
                           g    == ApplyOverrides(f, ev.val)
                       IN  [res |-> RunPipeline(g, data),
                            fld |-> RestoreOriginals(g, orig)]
    ELSE [res |-> RunPipeline(f, data), fld |-> f]

---------------------------------------------------------------------------
(* Bounds and the input families *)

MaxConds == 2       \* entries of a conditions dict
MaxDeps  == 2       \* length of a dependencies list

Names == {"a", "b", "c", "d"}

Transforms == {NoCallable, "strip"}
Types      == {NoCallable, "int"}
MapCombos  == {<<NoCallable, NoCallable>>, <<"codes", NoCallable>>, <<"codes", "nearest">>}
ChoiceSets == {{}, {I3}, {SHigh}}
Defaults   == {NoneV, I9}
Sources    == {NoSource, "k"}

PlainFields ==
    { [MkField("a") EXCEPT !.source = s, !.transform = t, !.type = ty,
                           !.mapping = m[1], !.mapper = m[2], !.choices = ch,
                           !.default = d, !.required = r] :
        s \in Sources, t \in Transforms, ty \in Types, m \in MapCombos,
        ch \in ChoiceSets, d \in Defaults, r \in BOOLEAN }

\* condition key and its evaluator, in the order they are written in the dict
CondPairs == << <<"value", "lst">>, <<"required", "isNone">>, <<"default", "lst">>,
                <<"transform", "kStrip">>, <<"type", "kInt">>, <<"choices", "kThree">>,
                <<"source", "kAlt">>, <<"bogus", "fst">>, <<"mapping", "boom">> >>

RECURSIVE SortedSeq(_)
SortedSeq(S) ==
    IF S = {} THEN <<>>
    ELSE LET m == CHOOSE i \in S : \A j \in S : i <= j
         IN  <<m>> \o SortedSeq(S \ {m})

CondDicts ==
    { [i \in 1..Len(SortedSeq(S)) |-> CondPairs[SortedSeq(S)[i]]] :
        S \in {T \in SUBSET (1..Len(CondPairs)) : Cardinality(T) <= MaxConds} }

DepSeq   == <<"c", "b", "d", "a">>
DepLists == {SubSeq(DepSeq, 1, n) : n \in 0..MaxDeps}

CondFields ==
    { [MkField("a") EXCEPT !.source = "k", !.conditional = TRUE,
                           !.default = d, !.required = r,
                           !.dependencies = deps, !.conditions = cd] :
        d \in Defaults, r \in BOOLEAN, deps \in DepLists, cd \in CondDicts }

\* the dicts handed to extract
DataSet == { [k |-> v, alt |-> I3] : v \in {MISSING, NoneV, SPad3, SX, I9} }
NoComputed == [n \in Names |-> MISSING]
ComputedSet ==
    { [n \in Names |-> CASE n = "b" -> vb [] n = "c" -> vc [] OTHER -> MISSING] :
        vb \in {MISSING, NoneV, S3}, vc \in {NoneV, I9} }
SomeComputed == [NoComputed EXCEPT !["b"] = S3, !["c"] = I9]
\* a non-conditional field ignores computed: one computed dict stands for all
CallArgs(f) ==
    { [data |-> d, hascomputed |-> TRUE, computed |-> c] :
        d \in DataSet, c \in IF f.conditional THEN ComputedSet ELSE {SomeComputed} }
    \cup { [data |-> d, hascomputed |-> FALSE, computed |-> NoComputed] : d \in DataSet }

---------------------------------------------------------------------------
(* Field.extract, one step per statement group *)

NoArgs      == [data |-> [k |-> MISSING, alt |-> MISSING],
                hascomputed |-> FALSE, computed |-> NoComputed]
NoOriginals == SaveOriginals(MkField(NoName))
NoOutcome   == [ok |-> FALSE, val |-> NoneV, err |-> NoErr]   \* no extract has finished

\* the parts of the state that belong to other operations, at rest
CompIdle ==
    /\ comp = <<>> /\ cdata = <<>> /\ cpc = "off" /\ ci = 0 /\ cacc = <<>>
    /\ cerrs = <<>> /\ ccalls = <<>> /\ cout = NoOutcome /\ ccomputed = <<>>
AccIdle   == acc = <<>> /\ aout = NoOutcome
BoundIdle ==
    /\ bmap = <<>> /\ bound = <<>> /\ fields0 = <<>> /\ bpc = "off" /\ bdata = <<>>
    /\ bidx = 0 /\ bresult = <<>> /\ bout = NoOutcome
MetaIdle  ==
    /\ objs = <<>> /\ nsp = <<>> /\ inh = <<>> /\ mreg = <<>> /\ mpc = "off"
    /\ mout = NoErr
ValidateIdle == verrs = <<>> /\ vout = NoOutcome
ThreadsIdle  == sf = <<>> /\ sf0 = <<>> /\ tpc = <<>> /\ tloc = <<>> /\ tdat = <<>> /\ tres = <<>>
ValidatorIdle ==
    valf = <<>> /\ valkw = <<>> /\ valcalls = <<>> /\ valdata = <<>> /\ valout = NoOutcome
PathIdle ==
    /\ store = <<>> /\ store0 = <<>> /\ pf = <<>> /\ ppc = "off" /\ pparts = <<>>
    /\ pidx = 0 /\ pcurr = <<>> /\ pout = NoOutcome
ReentrantIdle ==
    /\ rf = <<>> /\ rf0 = <<>> /\ rtpc = <<>> /\ rtargs = <<>> /\ rtloc = <<>>
    /\ rtres = <<>> /\ overlapped = FALSE
LaterIdle == ValidatorIdle /\ PathIdle /\ ReentrantIdle
ExtraIdle ==
    /\ CompIdle /\ AccIdle /\ BoundIdle /\ MetaIdle /\ ValidateIdle /\ ThreadsIdle
    /\ LaterIdle

FieldIdle ==
    /\ pc = "idle" /\ args = NoArgs /\ evaluated = <<>>
    /\ originals = NoOriginals /\ inov = FALSE /\ cur = NoneV
    /\ pend = NoOutcome /\ trace = <<>> /\ last = NoOutcome

\* return or raise out of extract
Finish(out) ==
    /\ pc' = "idle" /\ last' = out
    /\ evaluated' = <<>> /\ originals' = NoOriginals /\ inov' = FALSE
    /\ cur' = NoneV /\ pend' = NoOutcome

\* extract is called: the conditional prologue up to the pipeline
Call(a) ==
    /\ pc = "idle"
    /\ args' = a /\ snap' = fld /\ trace' = <<>>
    /\ UNCHANGED <<fld, svars, xvars>>
    /\ IF ~fld.conditional
       THEN /\ pc' = FirstStage
            /\ last' = NoOutcome
            /\ UNCHANGED <<evaluated, originals, inov, cur, pend>>
       ELSE IF ~a.hascomputed
       THEN Finish(Fail(Err("RequiresComputed", {fld.name}, NoValue)))
       ELSE LET ev == EvaluateConditions(fld, a.computed)
            IN  IF ~ev.ok THEN Finish(Fail(ev.err))
                ELSE IF HasKey(ev.val, "value")
                THEN Finish(Ok(ValueOf(ev.val, "value")))
                ELSE /\ pc' = "save" /\ evaluated' = ev.val
                     /\ last' = NoOutcome
                     /\ UNCHANGED <<originals, inov, cur, pend>>

\* _extractwithoverrides: originals = {...}
Save ==
    /\ pc = "save"
    /\ originals' = SaveOriginals(fld) /\ inov' = TRUE /\ pc' = "swap"
    /\ UNCHANGED <<fld, snap, args, evaluated, cur, pend, trace, last, svars, xvars>>

\* _extractwithoverrides: the setattr loop
Swap ==
    /\ pc = "swap"
    /\ fld' = ApplyOverrides(fld, evaluated) /\ pc' = FirstStage
    /\ UNCHANGED <<snap, args, evaluated, originals, inov, cur, pend, trace, last, svars, xvars>>

\* one stage of the pipeline
Stage ==
    /\ pc \in Stages
    /\ LET r == StageApply(pc, fld, args.data, cur)
       IN  /\ trace' = Append(trace, <<pc, cur, IF r.ok THEN r.val ELSE "raise">>)
           /\ IF r.ok /\ pc # LastStage
              THEN /\ pc' = NextStage(pc) /\ cur' = r.val
                   /\ UNCHANGED <<evaluated, originals, inov, pend, last>>
              ELSE IF inov
              THEN /\ pc' = "restore" /\ pend' = r /\ cur' = NoneV
                   /\ UNCHANGED <<evaluated, originals, inov, last>>
              ELSE Finish(r)
    /\ UNCHANGED <<fld, snap, args, svars, xvars>>

\* _extractwithoverrides: the finally block, then return or re-raise
Restore ==
    /\ pc = "restore"
    /\ fld' = RestoreOriginals(fld, originals)
    /\ Finish(pend)
    /\ UNCHANGED <<snap, args, trace, svars, xvars>>

OtherIdle ==
    /\ fields = <<>> /\ rpc = "off" /\ order = <<>> /\ rerr = NoErr
    /\ tdata = NoArgs.data /\ idx = 0 /\ result = <<>> /\ extracted = <<>>
    /\ tout = NoOutcome

InitField ==
    /\ fld \in PlainFields \cup CondFields
    /\ snap = fld
    /\ FieldIdle
    /\ OtherIdle
    /\ ExtraIdle

NextField ==
    \/ \E a \in CallArgs(fld) : Call(a)
    \/ Save
    \/ Swap
    \/ Stage
    \/ Restore

SpecField == InitField /\ [][NextField]_vars

---------------------------------------------------------------------------
(* Properties of Field.extract, checked under SpecField *)

Returned == pc = "idle" /\ last.ok
Raised   == pc = "idle" /\ ~last.ok /\ last # NoOutcome

DocumentedOrder ==
    <<"source", "transform", "type", "mapping", "choices", "validate", "required">>

\* C1: a non-conditional Field runs its stages in the order source, transform,
\* type, mapping, choices, validate, required; each stage receives the output
\* of the stage before it, a failing stage is the last one to run, and the
\* value returned is the output of the last stage (strip, int, choices [3] on
\* '  3  ' gives 3).
C1_StageOrder ==
    ~fld.conditional =>
        /\ Len(trace) <= Len(DocumentedOrder)
        /\ \A i \in 1..Len(trace) : trace[i][1] = DocumentedOrder[i]
        /\ \A i \in 2..Len(trace) : trace[i][2] = trace[i-1][3]
        /\ \A i \in 1..Len(trace) : trace[i][3] = "raise" => i = Len(trace) /\ Raised
        /\ Returned => /\ Len(trace) = Len(DocumentedOrder)
                       /\ last.val = trace[Len(trace)][3]
        /\ Raised => trace # <<>> /\ trace[Len(trace)][3] = "raise"
        /\ ( /\ Returned \/ Raised
             /\ fld.source = "k" /\ args.data.k = SPad3
             /\ fld.transform = "strip" /\ fld.type = "int"
             /\ fld.mapping = NoCallable /\ fld.choices = {I3} )
           => last = Ok(I3)

C1_Witness ==
    /\ Returned /\ ~fld.conditional
    /\ fld.transform = "strip" /\ fld.type = "int" /\ fld.choices = {I3}
    /\ fld.mapping = NoCallable
    /\ args.data.k = SPad3 /\ last.val = I3
    /\ trace[2] = <<"transform", SPad3, S3>> /\ trace[3] = <<"type", S3, I3>>

ValueField(f) == f.conditional /\ HasKey(f.conditions, "value")
DepsReady(f, a) ==
    /\ a.hascomputed /\ f.dependencies # <<>>
    /\ \A i \in 1..Len(f.dependencies) : a.computed[f.dependencies[i]] # MISSING
NoBoom(f) == \A i \in 1..Len(f.conditions) : f.conditions[i][2] # "boom"

\* C8: a conditional Field with a 'value' condition (here the evaluator that
\* returns its last positional argument) returns that evaluator's result on
\* the dependency values taken in dependency-list order, whatever the source,
\* default and required say, and no pipeline stage runs.
C8_ValueShortCircuit ==
    ValueField(fld) =>
        /\ pc = "idle" /\ trace = <<>>
        /\ Returned => /\ DepsReady(fld, args)
                       /\ last.val = args.computed[fld.dependencies[Len(fld.dependencies)]]
        /\ (last # NoOutcome /\ DepsReady(fld, args) /\ NoBoom(fld)) => Returned

C8_Witness ==
    /\ ValueField(fld) /\ Returned
    /\ fld.required /\ fld.default = I9 /\ fld.dependencies = <<"c", "b">>
    /\ args.computed["c"] = I9 /\ args.computed["b"] = NoneV
    /\ args.data.k = SX
    /\ last.val = NoneV

\* C10: when extract has returned or raised, every attribute of the Field has
\* the value it had before the call.
C10_AllAttributesRestored ==
    pc = "idle" => fld = snap

---------------------------------------------------------------------------
(* DependencyResolver over a registry: a sequence of fields in dict order *)

FieldNames(fs) == {fs[i].name : i \in 1..Len(fs)}
FieldAt(fs, n) == fs[CHOOSE i \in 1..Len(fs) : fs[i].name = n]
MinOf(S)       == CHOOSE i \in S : \A j \in S : i <= j

\* __init__ -> _validatedependencies: the first missing dependency raises
ValidateDependencies(fs) ==
    LET bad(i) == {j \in 1..Len(fs[i].dependencies) :
                      fs[i].dependencies[j] \notin FieldNames(fs)}
        badf   == {i \in 1..Len(fs) : fs[i].conditional /\ bad(i) # {}}
    IN  IF badf = {} THEN Ok(NoneV)
        ELSE LET i == MinOf(badf)
             IN  Fail(Err("MissingDependency",
                          {fs[i].name, fs[i].dependencies[MinOf(bad(i))]}, NoValue))

\* the build loop: one <<dep, name>> per graph[dep].append(name), in order
RECURSIVE Edges(_, _)
Edges(fs, i) ==
    IF i > Len(fs) THEN <<>>
    ELSE (IF fs[i].conditional
          THEN [j \in 1..Len(fs[i].dependencies) |->
                   <<fs[i].dependencies[j], fs[i].name>>]
          ELSE <<>>) \o Edges(fs, i + 1)

RECURSIVE Dependents(_, _, _)
Dependents(edges, dep, k) ==
    IF k > Len(edges) THEN <<>>
    ELSE (IF edges[k][1] = dep THEN <<edges[k][2]>> ELSE <<>>)
         \o Dependents(edges, dep, k + 1)

InitDegree(fs, edges) ==
    [n \in FieldNames(fs) |-> Cardinality({k \in 1..Len(edges) : edges[k][2] = n})]

\* a plausible slip: the queue is seeded without the test degree[node] == 0
ZeroNodesAll(fs, degree, i) == [k \in 1..(Len(fs) + 1 - i) |-> fs[i + k - 1].name]

\* q = deque(node for node in degree if degree[node] == 0), in dict order
RECURSIVE ZeroNodes(_, _, _)
ZeroNodes(fs, degree, i) ==
    IF i > Len(fs) THEN <<>>
    ELSE (IF degree[fs[i].name] = 0 THEN <<fs[i].name>> ELSE <<>>)
         \o ZeroNodes(fs, degree, i + 1)

\* the inner loop: for neighbor in graph[current]
RECURSIVE Relax(_, _, _, _)
Relax(neigh, k, degree, q) ==
    IF k > Len(neigh) THEN [degree |-> degree, q |-> q]
    ELSE LET n == neigh[k]
             d == [degree EXCEPT ![n] = @ - 1]
         IN  Relax(neigh, k + 1, d, IF d[n] = 0 THEN Append(q, n) ELSE q)

\* the while loop of Kahn's algorithm
RECURSIVE Kahn(_, _, _, _)
Kahn(edges, q, degree, res) ==
    IF q = <<>> THEN res
    ELSE LET current == Head(q)
             r == Relax(Dependents(edges, current, 1), 1, degree, Tail(q))
         IN  Kahn(edges, r.q, r.degree, Append(res, current))

\* a plausible slip: the whole path is reported, not the part from node on
IndexOfStart(path, n) == 1

IndexOf(path, n) == MinOf({i \in 1..Len(path) : path[i] = n})

\* _detectcycle.dfs; cyc = <<>> stands for None
RECURSIVE Dfs(_, _, _, _, _)
RECURSIVE DfsDeps(_, _, _, _, _, _)

\* a plausible slip: the visited test placed before the stack test
DfsVisitedFirst(fs, node, path, visited, stack) ==
    IF node \in visited
    THEN [cyc |-> <<>>, visited |-> visited, stack |-> stack]
    ELSE LET f == FieldAt(fs, node)
             r == IF f.conditional
                  THEN DfsDeps(fs, f.dependencies, 1, Append(path, node),
                               visited \cup {node}, stack \cup {node})
                  ELSE [cyc |-> <<>>, visited |-> visited \cup {node},
                        stack |-> stack \cup {node}]
         IN  IF r.cyc # <<>> THEN r
             ELSE [r EXCEPT !.stack = @ \ {node}]

Dfs(fs, node, path, visited, stack) ==
    IF node \in stack
    THEN [cyc |-> SubSeq(path, IndexOf(path, node), Len(path)) \o <<node>>,
          visited |-> visited, stack |-> stack]
    ELSE IF node \in visited
    THEN [cyc |-> <<>>, visited |-> visited, stack |-> stack]
    ELSE LET f == FieldAt(fs, node)
             r == IF f.conditional
                  THEN DfsDeps(fs, f.dependencies, 1, Append(path, node),
                               visited \cup {node}, stack \cup {node})
                  ELSE [cyc |-> <<>>, visited |-> visited \cup {node},
                        stack |-> stack \cup {node}]
         IN  IF r.cyc # <<>> THEN r
             ELSE [r EXCEPT !.stack = @ \ {node}]
DfsDeps(fs, deps, j, path, visited, stack) ==
    IF j > Len(deps) THEN [cyc |-> <<>>, visited |-> visited, stack |-> stack]
    ELSE LET r == Dfs(fs, deps[j], path, visited, stack)
         IN  IF r.cyc # <<>> THEN r
             ELSE DfsDeps(fs, deps, j + 1, path, r.visited, r.stack)

RECURSIVE DetectFrom(_, _, _)
DetectFrom(fs, i, visited) ==
    IF i > Len(fs) THEN <<"unknown cycle">>
    ELSE IF fs[i].name \in visited THEN DetectFrom(fs, i + 1, visited)
    ELSE LET r == Dfs(fs, fs[i].name, <<>>, visited, {})
         IN  IF r.cyc # <<>> THEN r.cyc
             ELSE DetectFrom(fs, i + 1, r.visited)

DetectCycle(fs) == DetectFrom(fs, 1, {})

ResolveOrderOp(fs) ==
    LET edges  == Edges(fs, 1)
        degree == InitDegree(fs, edges)
        res    == Kahn(edges, ZeroNodes(fs, degree, 1), degree, <<>>)
    IN  IF Len(res) # Len(fs)
        THEN Fail([Err("CycleDetected", {}, NoValue) EXCEPT !.wrap = DetectCycle(fs)])
        ELSE Ok(res)

---------------------------------------------------------------------------
(* The resolver's input family and its two operations *)

MaxEdges == 4       \* dependency entries in one registry

NameSeq    == <<"a", "b", "c", "d">>
DepSymbols == Names \cup {"z"}          \* "z" names no field

RECURSIVE SumTo(_, _)
SumTo(l, i) == IF i = 0 THEN 0 ELSE l[i] + SumTo(l, i - 1)

\* how many dependencies each of a, b, c, d lists: up to MaxDeps each,
\* MaxEdges in all
LenProfiles ==
    {l \in [1..Len(NameSeq) -> 0..MaxDeps] : SumTo(l, Len(NameSeq)) <= MaxEdges}

\* the registry a, b, c, d whose dependency lists are the pieces of flat; a
\* field with dependencies is conditional, except the field at position plain
RegistryOf(l, flat, plain) ==
    [i \in 1..Len(NameSeq) |->
        [MkField(NameSeq[i]) EXCEPT
            !.conditional  = (l[i] > 0 /\ i # plain),
            !.dependencies = SubSeq(flat, SumTo(l, i - 1) + 1, SumTo(l, i))]]

\* DependencyResolver(fields)
NewResolver ==
    /\ rpc = "new"
    /\ LET v == ValidateDependencies(fields)
       IN  IF v.ok THEN rpc' = "ready" /\ rerr' = NoErr
           ELSE rpc' = "rejected" /\ rerr' = v.err
    /\ UNCHANGED <<fields, order, fvars, tvars, xvars>>

\* resolver.resolveorder()
ResolveOrder ==
    /\ rpc = "ready"
    /\ LET r == ResolveOrderOp(fields)
       IN  IF r.ok THEN rpc' = "resolved" /\ order' = r.val /\ rerr' = NoErr
           ELSE rpc' = "cycle" /\ order' = <<>> /\ rerr' = r.err
    /\ UNCHANGED <<fields, fvars, tvars, xvars>>

InitResolver ==
    /\ \E l \in LenProfiles :
         \E flat \in [1..SumTo(l, Len(NameSeq)) -> DepSymbols] :
           \E plain \in {0} \cup {i \in 1..Len(NameSeq) : l[i] > 0} :
             fields = RegistryOf(l, flat, plain)
    /\ rpc = "new" /\ order = <<>> /\ rerr = NoErr
    /\ fld = MkField(NoName) /\ snap = fld /\ FieldIdle
    /\ tdata = NoArgs.data /\ idx = 0 /\ result = <<>> /\ extracted = <<>>
    /\ tout = NoOutcome
    /\ ExtraIdle

NextResolver ==
    \/ NewResolver
    \/ ResolveOrder

SpecResolver == InitResolver /\ [][NextResolver]_vars

---------------------------------------------------------------------------
(* Properties of the resolver, checked under SpecResolver *)

CondDeps(fs, n) ==
    LET f == FieldAt(fs, n)
    IN  IF f.conditional THEN {f.dependencies[j] : j \in 1..Len(f.dependencies)} ELSE {}

\* the fields reachable from S along conditional dependencies, inside N
RECURSIVE Closure(_, _, _)
Closure(fs, N, S) ==
    LET T == S \cup (N \cap UNION {CondDeps(fs, x) : x \in S})
    IN  IF T = S THEN S ELSE Closure(fs, N, T)

\* some field of N depends on itself through a chain that stays inside N
CyclicWithin(fs, N) ==
    \E n \in N : n \in Closure(fs, N, N \cap CondDeps(fs, n))
HasCycle(fs) == CyclicWithin(fs, FieldNames(fs))

Pos(seq, n)       == MinOf({i \in 1..Len(seq) : seq[i] = n})
Occurrences(seq, n) == Cardinality({i \in 1..Len(seq) : seq[i] = n})
Resolved          == rpc \in {"resolved", "cycle"}

\* C5: on a registry whose conditional dependencies are all present and form
\* no cycle, resolveorder returns a list holding every field name exactly
\* once, every dependency of a conditional field before that field;
\* dependencies written on a non-conditional field constrain nothing.
C5_ResolveOrder ==
    (Resolved /\ ~HasCycle(fields)) =>
        /\ rpc = "resolved"
        /\ Len(order) = Len(fields)
        /\ \A n \in FieldNames(fields) : Occurrences(order, n) = 1
        /\ \A n \in FieldNames(fields) :
             \A d \in CondDeps(fields, n) : Pos(order, d) < Pos(order, n)

C5_Witness ==
    /\ rpc = "resolved"
    /\ fields[1].conditional /\ fields[1].dependencies = <<"b", "c">>
    /\ fields[2].conditional /\ fields[2].dependencies = <<"d">>
    /\ fields[3].conditional /\ fields[3].dependencies = <<"d">>
    /\ ~fields[4].conditional
    /\ order = <<"d", "b", "c", "a">>

Elems(seq) == {seq[i] : i \in 1..Len(seq)}

\* C6: resolveorder raises the cycle error exactly when the dependency graph
\* of the conditional fields has a cycle (a self-dependency included); it then
\* returns no order and the reported path holds the fields of a cycle.
C6_CycleDetected ==
    Resolved =>
        /\ rpc = "cycle" <=> HasCycle(fields)
        /\ rpc = "cycle" =>
             /\ order = <<>>
             /\ rerr.kind = "CycleDetected"
             /\ CyclicWithin(fields, Elems(rerr.wrap) \cap FieldNames(fields))

C6_Witness ==
    /\ rpc = "cycle"
    /\ fields[1].conditional /\ fields[1].dependencies = <<"b">>
    /\ fields[2].conditional /\ fields[2].dependencies = <<"a">>
    /\ rerr.wrap = <<"a", "b", "a">>

---------------------------------------------------------------------------
(* Schema.transform over a registry *)

\* the ValueError raised by Schema.transform around a field's error
WrapField(e, name) ==
    [e EXCEPT !.names = @ \cup {name}, !.wrap = <<"schema">> \o @]

Keys(res) == {res[i][1] : i \in 1..Len(res)}
Get(res, k) == res[CHOOSE i \in 1..Len(res) : res[i][1] = k][2]

\* a plausible slip: a failing field is skipped and the loop goes on
TransformFieldSkip(f, data, res) ==
    LET r == ExtractOp(f, data, FALSE, NoComputed)
    IN  IF r.res.ok
        THEN [raised |-> FALSE, result |-> Append(res, <<f.name, r.res.val>>),
              err |-> NoErr, fld |-> r.fld]
        ELSE [raised |-> FALSE, result |-> res, err |-> NoErr, fld |-> r.fld]

\* the loop body: result[name] = field.extract(data), or the wrapped error
TransformField(f, data, res) ==
    LET r == ExtractOp(f, data, FALSE, NoComputed)
    IN  IF r.res.ok
        THEN [raised |-> FALSE, result |-> Append(res, <<f.name, r.res.val>>),
              err |-> NoErr, fld |-> r.fld]
        ELSE [raised |-> TRUE, result |-> <<>>,
              err |-> WrapField(r.res.err, f.name), fld |-> r.fld]

\* the fields a schema class declares, by kind
SchemaKinds == {"P", "R", "T", "C", "Vbc", "Vd", "Vz", "Qbc"}
KindField(n, k) ==
    LET p == [MkField(n) EXCEPT !.source = n]
        v == [MkField(n) EXCEPT !.conditional = TRUE,
                                !.conditions = << <<"value", "lst">> >>]
    IN  CASE k = "P"   -> p
          [] k = "R"   -> [p EXCEPT !.required = TRUE]
          [] k = "T"   -> [p EXCEPT !.transient = TRUE]
          [] k = "C"   -> [p EXCEPT !.choices = {I3}]
          [] k = "Vbc" -> [v EXCEPT !.dependencies = <<"b", "c">>]
          [] k = "Vd"  -> [v EXCEPT !.dependencies = <<"d">>]
          [] k = "Vz"  -> [v EXCEPT !.dependencies = <<"z">>]
          [] k = "Qbc" -> [p EXCEPT !.conditional = TRUE,
                                    !.dependencies = <<"b", "c">>,
                                    !.conditions = << <<"required", "isNone">> >>]

SchemaData == [Names -> {MISSING, SX}]

\* schema.transform(data) is called
TransformCall(d) ==
    /\ rpc = "schema"
    /\ tdata' = d /\ idx' = 1 /\ result' = <<>> /\ extracted' = <<>>
    /\ tout' = NoOutcome /\ rpc' = "loop"
    /\ UNCHANGED <<fields, order, rerr, fvars, xvars>>

\* one iteration of the loop over _fields.items()
TransformStep ==
    /\ rpc = "loop" /\ idx <= Len(fields)
    /\ LET s == TransformField(fields[idx], tdata, result)
       IN  /\ extracted' = Append(extracted, fields[idx].name)
           /\ fields' = [fields EXCEPT ![idx] = s.fld]
           /\ result' = s.result
           /\ IF s.raised
              THEN rpc' = "raised" /\ tout' = Fail(s.err) /\ idx' = idx
              ELSE rpc' = "loop" /\ tout' = tout /\ idx' = idx + 1
    /\ UNCHANGED <<tdata, order, rerr, fvars, xvars>>

\* the loop is over: return result
TransformReturn ==
    /\ rpc = "loop" /\ idx > Len(fields)
    /\ rpc' = "returned" /\ tout' = Ok(result)
    /\ UNCHANGED <<fields, tdata, idx, result, extracted, order, rerr, fvars, xvars>>

InitSchema ==
    /\ \E n \in 1..Len(NameSeq) :
         \E ks \in [1..n -> SchemaKinds] :
           fields = [i \in 1..n |-> KindField(NameSeq[i], ks[i])]
    /\ rpc = "schema" /\ order = <<>> /\ rerr = NoErr
    /\ fld = MkField(NoName) /\ snap = fld /\ FieldIdle
    /\ tdata = NoArgs.data /\ idx = 0 /\ result = <<>> /\ extracted = <<>>
    /\ tout = NoOutcome
    /\ ExtraIdle

NextSchema ==
    \/ \E d \in SchemaData : TransformCall(d)
    \/ TransformStep
    \/ TransformReturn

SpecSchema == InitSchema /\ [][NextSchema]_vars

---------------------------------------------------------------------------
(* Properties of Schema.transform, checked under SpecSchema *)

InPass    == rpc \in {"loop", "returned", "raised"}
PassDone  == rpc \in {"returned", "raised"}
RegNames  == [i \in 1..Len(fields) |-> fields[i].name]
DepsOf(f) == {f.dependencies[j] : j \in 1..Len(f.dependencies)}

\* C2: in a transform pass a conditional field is extracted only after every
\* field it depends on, whatever the declaration order, and it is handed the
\* values computed for them (so it never fails for want of computed values).
C2_DependencyOrder ==
    InPass =>
        /\ \A i \in 1..Len(extracted) :
             LET f == FieldAt(fields, extracted[i])
             IN  f.conditional =>
                   \A d \in DepsOf(f) \cap FieldNames(fields) :
                     \E j \in 1..(i - 1) : extracted[j] = d
        /\ rpc = "raised" => tout.err.kind # "RequiresComputed"

\* C3: the result map of a transform pass has a key for every non-transient
\* field and none for a transient field.
C3_TransientHidden ==
    rpc = "returned" =>
        \A i \in 1..Len(fields) :
            fields[i].name \in Keys(tout.val) <=> ~fields[i].transient

\* the fields of the registry whose extraction fails against the pass's data
Failing == {i \in 1..Len(fields) :
              ~ExtractOp(fields[i], tdata, FALSE, NoComputed).res.ok}

\* C4: a transform pass extracts the fields in registry order up to the first
\* field whose extraction fails and no further; it then raises an error that
\* names that field and hands no result map to the caller; with no failing
\* field it returns.
C4_FailFast ==
    InPass =>
        /\ extracted = SubSeq(RegNames, 1, Len(extracted))
        /\ Failing # {} =>
             /\ Len(extracted) <= MinOf(Failing)
             /\ PassDone =>
                  /\ rpc = "raised" /\ ~tout.ok
                  /\ Len(extracted) = MinOf(Failing)
                  /\ fields[MinOf(Failing)].name \in tout.err.names
                  /\ tout.err.wrap[1] = "schema"
                  /\ result = <<>>
        /\ (Failing = {} /\ PassDone) => rpc = "returned" /\ tout.ok

C4_Witness ==
    /\ rpc = "raised"
    /\ Len(fields) = 4
    /\ Failing = {2, 4}
    /\ fields[2].choices = {I3} /\ tdata["b"] = SX
    /\ extracted = <<"a", "b">>
    /\ tout.err.kind = "ChoiceViolation" /\ tout.err.names = {"b"}

HasMissingDependency ==
    \E i \in 1..Len(fields) :
        fields[i].conditional /\ ~(DepsOf(fields[i]) \subseteq FieldNames(fields))

\* C7: no transform pass extracts a field of a schema in which a conditional
\* field names a dependency that is not a field of the schema; the pass is
\* rejected with a missing-dependency error.
C7_MissingDependencyRejected ==
    (InPass /\ HasMissingDependency) =>
        /\ extracted = <<>>
        /\ PassDone => rpc = "raised" /\ tout.err.kind = "MissingDependency"

\* the schema of the conditional-required example: b and c are plain or
\* transient fields, d reads its source and is required when b is None
CondRequiredSchema ==
    /\ Len(fields) = 4
    /\ ~fields[1].conditional /\ ~fields[1].required /\ fields[1].choices = {}
    /\ \A i \in {2, 3} : ~fields[i].conditional /\ ~fields[i].required
                         /\ fields[i].choices = {}
    /\ fields[4].conditional /\ fields[4].conditions = << <<"required", "isNone">> >>

\* C9: an evaluated 'required' condition replaces the field's required for
\* that extraction: in the example schema the pass fails with a required-value
\* error when b is None and the source of d is absent, and otherwise returns
\* the source value of d.
C9_ConditionalRequired ==
    (PassDone /\ CondRequiredSchema) =>
        IF tdata["d"] = MISSING /\ tdata["b"] = MISSING
        THEN rpc = "raised" /\ tout.err.kind = "RequiredValueMissing"
             /\ "d" \in tout.err.names
        ELSE /\ rpc = "returned"
             /\ "d" \in Keys(tout.val)
             /\ Get(tout.val, "d") = (IF tdata["d"] = MISSING THEN NoneV ELSE tdata["d"])

---------------------------------------------------------------------------
(* AccumulatedField._accumulatevalues over typed values: a number, a       *)
(* string, a list of numbers, a dict from string keys to numbers (in       *)
(* insertion order), None.                                                 *)

PyNone    == [k |-> "none", n |-> 0, s |-> "", l |-> <<>>, m |-> <<>>]
PyNum(n)  == [PyNone EXCEPT !.k = "num",  !.n = n]
PyStr(s)  == [PyNone EXCEPT !.k = "str",  !.s = s]
PyList(l) == [PyNone EXCEPT !.k = "list", !.l = l]
PyDict(m) == [PyNone EXCEPT !.k = "dict", !.m = m]

\* the typed value of an encoded leaf value
PyOf(v) ==
    CASE v = I3    -> PyNum(3)
      [] v = I9    -> PyNum(9)
      [] v = S3    -> PyStr("3")
      [] v = SPad3 -> PyStr("  3  ")
      [] v = SX    -> PyStr("x")
      [] v = SHigh -> PyStr("high")
      [] OTHER     -> PyNone

Digits == <<"0", "1", "2", "3", "4", "5", "6", "7", "8", "9">>

RECURSIVE NumStr(_)
NumStr(n) ==
    IF n < 10 THEN Digits[n + 1]
    ELSE NumStr(n \div 10) \o Digits[(n % 10) + 1]

RECURSIVE Join(_, _)
Join(strs, sep) ==
    IF strs = <<>> THEN ""
    ELSE IF Len(strs) = 1 THEN strs[1]
    ELSE strs[1] \o sep \o Join(Tail(strs), sep)

\* str(value)
Str(pv) ==
    CASE pv.k = "num"  -> NumStr(pv.n)
      [] pv.k = "str"  -> pv.s
      [] pv.k = "list" ->
            "[" \o Join([i \in 1..Len(pv.l) |-> NumStr(pv.l[i])], ", ") \o "]"
      [] pv.k = "dict" ->
            "{" \o Join([i \in 1..Len(pv.m) |->
                           "'" \o pv.m[i][1] \o "': " \o NumStr(pv.m[i][2])], ", ")
                \o "}"
      [] OTHER -> "None"

DictKeys(m) == {m[i][1] : i \in 1..Len(m)}
DictGet(m, key) == m[CHOOSE i \in 1..Len(m) : m[i][1] = key][2]

\* left.copy() then .update(right): a shared key keeps its place and takes
\* the right value, a new key is appended
RECURSIVE DictUpdate(_, _)
DictUpdate(left, right) ==
    IF right = <<>> THEN left
    ELSE LET key == right[1][1]
             val == right[1][2]
             one == IF key \in DictKeys(left)
                    THEN [i \in 1..Len(left) |->
                            IF left[i][1] = key THEN <<key, val>> ELSE left[i]]
                    ELSE Append(left, <<key, val>>)
         IN  DictUpdate(one, Tail(right))

CombineValues(sep, left, right) ==
    IF left.k = "dict" /\ right.k = "dict" THEN PyDict(DictUpdate(left.m, right.m))
    ELSE IF left.k = "list" /\ right.k = "list" THEN PyList(left.l \o right.l)
    ELSE IF left.k = "num" /\ right.k = "num" THEN PyNum(left.n + right.n)
    ELSE IF left.k = "str" /\ right.k = "str" THEN PyStr(left.s \o sep \o right.s)
    ELSE PyStr(Str(left) \o sep \o Str(right))

\* a plausible slip: the values are folded from the right
RECURSIVE FoldRight(_, _)
FoldRight(sep, values) ==
    IF Len(values) = 1 THEN values[1]
    ELSE CombineValues(sep, values[1], FoldRight(sep, Tail(values)))

\* result = values[0]; for value in values[1:]: result = combine(result, value)
RECURSIVE FoldLeft(_, _)
FoldLeft(sep, values) ==
    IF Len(values) = 1 THEN values[1]
    ELSE CombineValues(sep, FoldLeft(sep, SubSeq(values, 1, Len(values) - 1)),
                       values[Len(values)])

AccumulateValues(sep, values) ==
    IF values = <<>> THEN PyNone
    ELSE IF Len(values) = 1 THEN values[1]
    ELSE FoldLeft(sep, values)

\* the end of AccumulatedField.extract, after the loop over the children
AccumulateTail(a) ==
    IF a.values = <<>>
    THEN IF a.required THEN Fail(Err("NoValues", {}, NoValue))
         ELSE Ok(PyNone)
    ELSE Ok(AccumulateValues(a.separator, a.values))

MaxVals == 3
Separators == {" ", "-"}
PyBase == {PyNum(1), PyNum(2), PyStr("x"), PyStr("y"), PyList(<<1>>),
           PyList(<<2, 3>>), PyDict(<< <<"a", 1>> >>),
           PyDict(<< <<"b", 2>>, <<"a", 3>> >>)}

\* the loop of extract has collected acc.values: accumulate and return
Accumulate ==
    /\ aout = NoOutcome
    /\ aout' = AccumulateTail(acc)
    /\ UNCHANGED <<acc, fvars, zvars, svars, cvars, bvars, mvars, wvars, kvars>>

InitAccumulate ==
    /\ \E n \in 0..MaxVals :
         \E vs \in [1..n -> PyBase] :
           \E sep \in Separators :
             \E req \in BOOLEAN :
               acc = [values |-> vs, separator |-> sep, required |-> req]
    /\ aout = NoOutcome
    /\ fld = MkField(NoName) /\ snap = fld /\ FieldIdle /\ LaterIdle /\ OtherIdle
    /\ CompIdle /\ BoundIdle /\ MetaIdle /\ ValidateIdle /\ ThreadsIdle

NextAccumulate ==
    \/ Accumulate

SpecAccumulate == InitAccumulate /\ [][NextAccumulate]_vars

---------------------------------------------------------------------------
(* Properties of the accumulation, checked under SpecAccumulate *)

Accumulated == aout # NoOutcome

\* the pairwise rules, stated on what the combined value holds
PairRule(sep, l, r, out) ==
    CASE l.k = "dict" /\ r.k = "dict" ->
            /\ out.k = "dict"
            /\ DictKeys(out.m) = DictKeys(l.m) \cup DictKeys(r.m)
            /\ Len(out.m) = Cardinality(DictKeys(out.m))
            /\ \A key \in DictKeys(out.m) :
                 DictGet(out.m, key) = IF key \in DictKeys(r.m) THEN DictGet(r.m, key)
                                       ELSE DictGet(l.m, key)
      [] l.k = "list" /\ r.k = "list" ->
            /\ out.k = "list" /\ Len(out.l) = Len(l.l) + Len(r.l)
            /\ \A i \in 1..Len(l.l) : out.l[i] = l.l[i]
            /\ \A i \in 1..Len(r.l) : out.l[Len(l.l) + i] = r.l[i]
      [] l.k = "num" /\ r.k = "num" -> out = PyNum(l.n + r.n)
      [] l.k = "str" /\ r.k = "str" -> out = PyStr(l.s \o sep \o r.s)
      [] OTHER -> out = PyStr(Str(l) \o sep \o Str(r))

\* the chain of intermediate results of a left fold obeys the pairwise rules
RECURSIVE LeftChain(_, _, _)
LeftChain(sep, values, out) ==
    IF Len(values) = 1 THEN out = values[1]
    ELSE \E mid \in {AccumulateValues(sep, SubSeq(values, 1, Len(values) - 1))} :
            /\ LeftChain(sep, SubSeq(values, 1, Len(values) - 1), mid)
            /\ PairRule(sep, mid, values[Len(values)], out)

\* C14: the non-None values are combined by a left fold in child order with
\* the pairwise rules dict merge (right wins), list concatenation, number sum,
\* string join with the separator, stringified join for mismatched kinds; one
\* value is returned unchanged; no value gives None, or an error when required.
C14_AccumulateRules ==
    Accumulated =>
        IF acc.values = <<>>
        THEN IF acc.required THEN ~aout.ok /\ aout.err.kind = "NoValues"
             ELSE aout = Ok(PyNone)
        ELSE /\ aout.ok
             /\ LeftChain(acc.separator, acc.values, aout.val)

\* 1 + 2 gives 3, then 3 + 'x' is the mismatched join '3-x'
C14_Witness ==
    /\ Accumulated
    /\ acc.values = <<PyNum(1), PyNum(2), PyStr("x")>> /\ acc.separator = "-"
    /\ aout = Ok(PyStr("3-x"))

---------------------------------------------------------------------------
(* The composite fields FallbackField, CombinedField and AccumulatedField  *)
(* over leaf children; every child is extracted with field.extract(data).  *)

FallbackField(primary, fallback) ==
    [cls |-> "FallbackField", name |-> primary.name, required |-> primary.required,
     default |-> fallback.default, fields |-> <<primary, fallback>>,
     separator |-> " "]

AnyRequired(fs) == \E i \in 1..Len(fs) : fs[i].required

CombinedField(fs) ==
    [cls |-> "CombinedField", name |-> NoName, required |-> AnyRequired(fs),
     default |-> "{}", fields |-> fs, separator |-> " "]

AccumulatedField(fs, sep) ==
    [cls |-> "AccumulatedField", name |-> NoName, required |-> AnyRequired(fs),
     default |-> NoneV, fields |-> fs, separator |-> sep]

\* a plausible slip: the composite's computed argument is passed on
ChildExtractForward(child, data) ==
    ExtractOp(child, data, ccomputed.has, ccomputed.val)

\* child.extract(data): the composites pass no computed values
ChildExtract(child, data) == ExtractOp(child, data, FALSE, NoComputed)

\* a plausible slip: the fallback is used only when the primary raises
UseFallbackOnError(primary, r) == ~r.ok

\* FallbackField.extract: is the fallback extracted after the primary?
UseFallback(primary, r) == ~r.ok \/ (r.val = NoneV /\ ~primary.required)

\* result[key] = value
DictSet(res, key, val) ==
    IF key \in Keys(res)
    THEN [i \in 1..Len(res) |-> IF res[i][1] = key THEN <<key, val>> ELSE res[i]]
    ELSE Append(res, <<key, val>>)

\* CombinedField.extract, the try body after a successful child extract
CombinedStore(child, val, res) ==
    IF child.name # NoName
    THEN IF val # NoneV \/ child.required THEN DictSet(res, child.name, val)
         ELSE res
    ELSE DictSet(res, "field" \o NumStr(Len(res)), val)

\* a plausible slip: only the first failure is kept
CombinedErrorFirst(child, errs) ==
    IF child.required /\ errs = <<>> THEN Append(errs, child.name) ELSE errs

\* CombinedField.extract, the except clause: one message per required child
CombinedError(child, errs) ==
    IF child.required THEN Append(errs, child.name) ELSE errs

\* a plausible slip: a failing required child is skipped like any other
AccumulatedBodySkip(child, r, values) ==
    IF r.ok
    THEN [raised |-> FALSE, err |-> NoErr,
          values |-> IF r.val # NoneV THEN Append(values, r.val) ELSE values]
    ELSE [raised |-> FALSE, err |-> NoErr, values |-> values]

\* AccumulatedField.extract, the loop body
AccumulatedBody(child, r, values) ==
    IF r.ok
    THEN [raised |-> FALSE, err |-> NoErr,
          values |-> IF r.val # NoneV THEN Append(values, r.val) ELSE values]
    ELSE IF child.required
    THEN [raised |-> TRUE, values |-> values,
          err |-> [r.err EXCEPT !.kind = "AccumulationFailed",
                                !.names = @ \cup {child.name},
                                !.wrap = <<child.name>>]]
    ELSE [raised |-> FALSE, err |-> NoErr, values |-> values]

MaxChildren == 3

ChildP == [MkField("p") EXCEPT !.source = "p", !.required = TRUE]
ChildQ == [MkField("q") EXCEPT !.source = "q", !.type = "int"]
ChildR == [MkField("r") EXCEPT !.source = "r", !.required = TRUE, !.type = "int"]
ChildU == [MkField(NoName) EXCEPT !.source = "q"]
ChildPool == {ChildP, ChildQ, ChildR, ChildU}
CompData  == [{"p", "q", "r"} -> {MISSING, SX, I3}]

\* conditional children: c yields the value of b, d takes its default from b
ChildC == [MkField("c") EXCEPT !.source = "q", !.conditional = TRUE,
                               !.dependencies = <<"b">>,
                               !.conditions = << <<"value", "lst">> >>]
ChildD == [MkField("d") EXCEPT !.source = "q", !.required = TRUE,
                               !.conditional = TRUE, !.dependencies = <<"b">>,
                               !.conditions = << <<"default", "lst">> >>]
CondChildPool == {ChildP, ChildQ, ChildC, ChildD}

\* the data handed to a NestedField: the dict of the children under the key n,
\* or a dict without that key
NestedData == {[n |-> d] : d \in CompData} \cup {[m |-> SX]}

\* extract(data, computed=None): the computed argument, absent or a dict
NoComputedArg == [has |-> FALSE, val |-> NoComputed]
CompComputed  == {NoComputedArg, [has |-> TRUE, val |-> [NoComputed EXCEPT !["b"] = I3]]}

\* composite.extract(data, computed) is called
CompCall(d, k) ==
    /\ cpc = "idle"
    /\ (comp.cls = "NestedField") <=> (d \in NestedData)
    /\ cdata' = d /\ ci' = 1 /\ cacc' = <<>> /\ cerrs' = <<>> /\ ccalls' = <<>>
    /\ cout' = NoOutcome /\ ccomputed' = k
    /\ cpc' = CASE comp.cls = "FallbackField" -> "primary"
                [] comp.cls = "NestedField"   -> "nested"
                [] comp.cls = "BoundField"    -> "bound"
                [] OTHER                      -> "loop"
    /\ UNCHANGED <<comp, fvars, zvars, svars, avars, bvars, mvars, wvars, kvars>>

\* FallbackField.extract: value = self.primary.extract(data) in the try block
FallbackPrimary ==
    /\ cpc = "primary"
    /\ LET r == ChildExtract(comp.fields[1], cdata)
       IN  /\ comp' = [comp EXCEPT !.fields[1] = r.fld]
           /\ ccalls' = Append(ccalls, 1)
           /\ IF UseFallback(comp.fields[1], r.res)
              THEN /\ cpc' = IF r.res.ok THEN "intry" ELSE "fallback"
                   /\ cout' = cout
              ELSE cpc' = "done" /\ cout' = r.res
    /\ UNCHANGED <<ccomputed, cdata, ci, cacc, cerrs, fvars, zvars, svars, avars, bvars, mvars,
                   wvars, kvars>>

\* FallbackField.extract: return self.fallback.extract(data) inside the try
\* block, after a None from the primary; what it raises is caught by the
\* except clause of the same try
FallbackInTry ==
    /\ cpc = "intry"
    /\ LET r == ChildExtract(comp.fields[2], cdata)
       IN  /\ comp' = [comp EXCEPT !.fields[2] = r.fld]
           /\ ccalls' = Append(ccalls, 2)
           /\ IF r.res.ok
              THEN cpc' = "done" /\ cout' = r.res
              ELSE cpc' = "fallback" /\ cout' = cout
    /\ UNCHANGED <<ccomputed, cdata, ci, cacc, cerrs, fvars, zvars, svars, avars, bvars, mvars,
                   wvars, kvars>>

\* FallbackField.extract: return self.fallback.extract(data) in the except
\* clause
FallbackSecond ==
    /\ cpc = "fallback"
    /\ LET r == ChildExtract(comp.fields[2], cdata)
       IN  /\ comp' = [comp EXCEPT !.fields[2] = r.fld]
           /\ ccalls' = Append(ccalls, 2)
           /\ cpc' = "done" /\ cout' = r.res
    /\ UNCHANGED <<ccomputed, cdata, ci, cacc, cerrs, fvars, zvars, svars, avars, bvars, mvars,
                   wvars, kvars>>

\* CombinedField.extract: one iteration of the loop over self.fields
CombinedStep ==
    /\ cpc = "loop" /\ comp.cls = "CombinedField" /\ ci <= Len(comp.fields)
    /\ LET child == comp.fields[ci]
           r     == ChildExtract(child, cdata)
       IN  /\ comp' = [comp EXCEPT !.fields[ci] = r.fld]
           /\ ccalls' = Append(ccalls, ci)
           /\ IF r.res.ok
              THEN cacc' = CombinedStore(child, r.res.val, cacc) /\ cerrs' = cerrs
              ELSE cacc' = cacc /\ cerrs' = CombinedError(child, cerrs)
    /\ ci' = ci + 1
    /\ UNCHANGED <<ccomputed, cdata, cpc, cout, fvars, zvars, svars, avars, bvars, mvars, wvars,
                   kvars>>

\* CombinedField.extract: after the loop, raise the aggregate or return
CombinedEnd ==
    /\ cpc = "loop" /\ comp.cls = "CombinedField" /\ ci > Len(comp.fields)
    /\ cpc' = "done"
    /\ cout' = IF cerrs # <<>>
               THEN [ok |-> FALSE, val |-> <<>>,
                     err |-> [Err("CombinedFailed", Elems(cerrs), NoValue)
                                EXCEPT !.wrap = cerrs]]
               ELSE [ok |-> TRUE, val |-> cacc, err |-> NoErr]
    /\ UNCHANGED <<ccomputed, comp, cdata, ci, cacc, cerrs, ccalls, fvars, zvars, svars, avars,
                   bvars, mvars, wvars, kvars>>

\* AccumulatedField.extract: one iteration of the loop over self.fields
AccumulatedStep ==
    /\ cpc = "loop" /\ comp.cls = "AccumulatedField" /\ ci <= Len(comp.fields)
    /\ LET child == comp.fields[ci]
           r     == ChildExtract(child, cdata)
           b     == AccumulatedBody(child, r.res, cacc)
       IN  /\ comp' = [comp EXCEPT !.fields[ci] = r.fld]
           /\ ccalls' = Append(ccalls, ci)
           /\ cacc' = b.values
           /\ IF b.raised
              THEN /\ cpc' = "done" /\ ci' = ci
                   /\ cout' = [ok |-> FALSE, val |-> PyNone, err |-> b.err]
              ELSE cpc' = cpc /\ ci' = ci + 1 /\ cout' = cout
    /\ UNCHANGED <<ccomputed, cdata, cerrs, fvars, zvars, svars, avars, bvars, mvars, wvars, kvars>>

\* AccumulatedField.extract: after the loop
AccumulatedEnd ==
    /\ cpc = "loop" /\ comp.cls = "AccumulatedField" /\ ci > Len(comp.fields)
    /\ cpc' = "done"
    /\ LET out == AccumulateTail([values    |-> [i \in 1..Len(cacc) |-> PyOf(cacc[i])],
                                  separator |-> comp.separator,
                                  required  |-> comp.required])
       IN  cout' = [ok |-> out.ok, val |-> IF out.ok THEN out.val ELSE PyNone,
                    err |-> out.err]
    /\ UNCHANGED <<ccomputed, comp, cdata, ci, cacc, cerrs, ccalls, fvars, zvars, svars, avars,
                   bvars, mvars, wvars, kvars>>

InitComposite ==
    /\ \/ \E p \in ChildPool : \E f \in ChildPool : comp = FallbackField(p, f)
       \/ \E n \in 1..MaxChildren :
            \E fs \in [1..n -> ChildPool] :
              \/ comp = CombinedField(fs)
              \/ \E sep \in Separators : comp = AccumulatedField(fs, sep)
    /\ cdata = <<>> /\ cpc = "idle" /\ ci = 0 /\ cacc = <<>> /\ cerrs = <<>>
    /\ ccalls = <<>> /\ cout = NoOutcome /\ ccomputed = <<>>
    /\ fld = MkField(NoName) /\ snap = fld /\ FieldIdle /\ LaterIdle /\ OtherIdle
    /\ AccIdle /\ BoundIdle /\ MetaIdle /\ ValidateIdle /\ ThreadsIdle

NextComposite ==
    \/ \E d \in CompData : CompCall(d, NoComputedArg)
    \/ FallbackPrimary
    \/ FallbackInTry
    \/ FallbackSecond
    \/ CombinedStep
    \/ CombinedEnd
    \/ AccumulatedStep
    \/ AccumulatedEnd

SpecComposite == InitComposite /\ [][NextComposite]_vars

---------------------------------------------------------------------------
(* Properties of the composite fields, checked under SpecComposite *)

CompDone(cls) == cpc = "done" /\ comp.cls = cls

\* what child i yields on the data of the call
Yield(i) == RunPipeline(comp.fields[i], cdata)
UpTo(n) == [i \in 1..n |-> i]

FailedRequired == {i \in 1..Len(comp.fields) : ~Yield(i).ok /\ comp.fields[i].required}
FailedOptional == {i \in 1..Len(comp.fields) : ~Yield(i).ok /\ ~comp.fields[i].required}

FirstFailedRequired == CHOOSE i \in FailedRequired : \A j \in FailedRequired : i <= j

\* the non-None values of the children that succeed, in child order
RECURSIVE Collected(_)
Collected(n) ==
    IF n = 0 THEN <<>>
    ELSE IF Yield(n).ok /\ Yield(n).val # NoneV
         THEN Append(Collected(n - 1), Yield(n).val)
         ELSE Collected(n - 1)

---------------------------------------------------------------------------
(* Schema.bind and BoundSchema over a registry of leaf and composite fields *)

IsLeaf(f) == "cls" \notin DOMAIN f

\* FallbackField.extract as one call: p and q are the outcomes of the primary's
\* and of the fallback's extract
FallbackReturn(f, p, q) ==
    [res |-> q.res, fld |-> [f EXCEPT !.fields[1] = p.fld, !.fields[2] = q.fld]]

FallbackAfterPrimary(f, data, p) ==
    IF UseFallback(f.fields[1], p.res)
    THEN FallbackReturn(f, p, ChildExtract(f.fields[2], data))
    ELSE [res |-> p.res, fld |-> [f EXCEPT !.fields[1] = p.fld]]

FallbackExtractOp(f, data) ==
    FallbackAfterPrimary(f, data, ChildExtract(f.fields[1], data))

\* field.extract(data) on a registered field of either class
FieldExtract(f, data) ==
    IF IsLeaf(f) THEN ExtractOp(f, data, FALSE, NoComputed)
    ELSE FallbackExtractOp(f, data)

\* entries of the mapping given to bind; NoEntry: the name has no entry
NoEntry == [kind |-> "none", source |-> NoSource, transform |-> NoCallable]
BindEntries ==
    {NoEntry,
     [kind |-> "str",      source |-> "alt",    transform |-> NoCallable],
     [kind |-> "tuple",    source |-> "alt",    transform |-> "strip"],
     [kind |-> "callable", source |-> NoSource, transform |-> "strip"],
     [kind |-> "invalid",  source |-> NoSource, transform |-> NoCallable]}

\* a plausible slip: a field without an entry is rebuilt as well
BindFieldRebuild(field, entry) ==
    IF entry.kind = "invalid"
    THEN [ok |-> FALSE, shared |-> FALSE, fld |-> field,
          err |-> Err("InvalidMapping", {field.name}, NoValue)]
    ELSE IF ~IsLeaf(field)
    THEN [ok |-> FALSE, shared |-> FALSE, fld |-> field,
          err |-> Err("TypeError", {}, NoValue)]
    ELSE [ok |-> TRUE, shared |-> FALSE, err |-> NoErr,
          fld |-> [MkField(field.name) EXCEPT
                      !.source    = IF entry.kind \in {"str", "tuple"}
                                    THEN entry.source ELSE field.source,
                      !.transform = IF entry.kind \in {"tuple", "callable"}
                                    THEN entry.transform ELSE field.transform,
                      !.required  = field.required,
                      !.default   = field.default]]

\* BoundSchema._bindfield: the field itself when the name has no entry, else
\* field.__class__(name, source, transform, required, default); a composite
\* class does not take these arguments (TypeError)
BindField(field, entry) ==
    IF entry.kind = "none"
    THEN [ok |-> TRUE, shared |-> TRUE, fld |-> field, err |-> NoErr]
    ELSE IF entry.kind = "invalid"
    THEN [ok |-> FALSE, shared |-> FALSE, fld |-> field,
          err |-> Err("InvalidMapping", {field.name}, NoValue)]
    ELSE IF ~IsLeaf(field)
    THEN [ok |-> FALSE, shared |-> FALSE, fld |-> field,
          err |-> Err("TypeError", {}, NoValue)]
    ELSE [ok |-> TRUE, shared |-> FALSE, err |-> NoErr,
          fld |-> [MkField(field.name) EXCEPT
                      !.source    = IF entry.kind \in {"str", "tuple"}
                                    THEN entry.source ELSE field.source,
                      !.transform = IF entry.kind \in {"tuple", "callable"}
                                    THEN entry.transform ELSE field.transform,
                      !.required  = field.required,
                      !.default   = field.default]]

\* BoundSchema._bindfields: in registry order, the first error ends it
BindFields(fs, mp) ==
    LET b   == [i \in 1..Len(fs) |-> BindField(fs[i], mp[i])]
        bad == {i \in 1..Len(fs) : ~b[i].ok}
    IN  IF bad = {}
        THEN [ok |-> TRUE, err |-> NoErr,
              bound |-> [i \in 1..Len(fs) |-> [shared |-> b[i].shared, fld |-> b[i].fld]]]
        ELSE [ok |-> FALSE, bound |-> <<>>,
              err |-> b[CHOOSE i \in bad : \A j \in bad : i <= j].err]

\* the ValueError raised by BoundSchema.transform around a field's error
WrapBound(e, name) ==
    [e EXCEPT !.names = @ \cup {name}, !.wrap = <<"bound">> \o @]

\* a plausible slip: a failing bound field is skipped
BoundStoreSkip(name, res, r) ==
    IF r.res.ok
    THEN [raised |-> FALSE, result |-> Append(res, <<name, r.res.val>>),
          err |-> NoErr, fld |-> r.fld]
    ELSE [raised |-> FALSE, result |-> res, err |-> NoErr, fld |-> r.fld]

\* BoundSchema.transform, the loop body after boundfield.extract(data) gave r
BoundStore(name, res, r) ==
    IF r.res.ok
    THEN [raised |-> FALSE, result |-> Append(res, <<name, r.res.val>>),
          err |-> NoErr, fld |-> r.fld]
    ELSE [raised |-> TRUE, result |-> <<>>,
          err |-> WrapBound(r.res.err, name), fld |-> r.fld]

\* BoundSchema.transform, the loop body
BoundTransformField(f, name, data, res) ==
    BoundStore(name, res, FieldExtract(f, data))

\* Schema.transform as one call: the loop from position i on; r is the outcome
\* of the extract of field i
RECURSIVE SchemaTransformFrom(_, _, _, _)
SchemaTransformWith(fs, data, i, res, r) ==
    IF r.res.ok
    THEN SchemaTransformFrom([fs EXCEPT ![i] = r.fld], data, i + 1,
                             Append(res, <<fs[i].name, r.res.val>>))
    ELSE [out |-> Fail(WrapField(r.res.err, fs[i].name)), at |-> i,
          fields |-> [fs EXCEPT ![i] = r.fld]]

SchemaTransformFrom(fs, data, i, res) ==
    IF i > Len(fs) THEN [out |-> Ok(res), at |-> i, fields |-> fs]
    ELSE SchemaTransformWith(fs, data, i, res, FieldExtract(fs[i], data))

SchemaTransformOp(fs, data) == SchemaTransformFrom(fs, data, 1, <<>>)

BoundNames == <<"a", "b">>
BoundKinds == {"P", "R", "C", "T", "S", "Vd", "F"}
BoundKindField(n, k) ==
    CASE k = "F" -> FallbackField([MkField(n) EXCEPT !.source = n],
                                  [MkField(n) EXCEPT !.source = "alt"])
      [] k = "S" -> [MkField(n) EXCEPT !.source = n, !.transform = "strip",
                                       !.type = "int", !.target = n]
      [] OTHER   -> KindField(n, k)
BoundData == [{"a", "b", "alt"} -> {MISSING, SPad3}]

\* schema.bind(mapping): BoundSchema.__init__
Bind(mp) ==
    /\ bpc = "schema"
    /\ bmap' = mp
    /\ LET b == BindFields(fields, mp)
       IN  IF b.ok THEN bpc' = "bound" /\ bound' = b.bound /\ bout' = NoOutcome
           ELSE bpc' = "bindfailed" /\ bound' = <<>> /\ bout' = Fail(b.err)
    /\ UNCHANGED <<fields0, bdata, bidx, bresult, fvars, zvars, svars, cvars, avars,
                   mvars, wvars, kvars>>

\* boundschema.transform(data) is called
BoundTransformCall ==
    /\ bpc = "bound"
    /\ bpc' = "loop" /\ bidx' = 1 /\ bresult' = <<>>
    /\ UNCHANGED <<bmap, bound, fields0, bdata, bout, fvars, zvars, svars, cvars, avars,
                   mvars, wvars, kvars>>

\* one iteration of the loop over _boundfields.items(); a field without an
\* entry is the registered field object itself
BoundTransformStep ==
    /\ bpc = "loop" /\ bidx <= Len(bound)
    /\ LET f == IF bound[bidx].shared THEN fields[bidx] ELSE bound[bidx].fld
           s == BoundTransformField(f, fields[bidx].name, bdata, bresult)
       IN  /\ IF bound[bidx].shared
              THEN fields' = [fields EXCEPT ![bidx] = s.fld] /\ bound' = bound
              ELSE fields' = fields /\ bound' = [bound EXCEPT ![bidx].fld = s.fld]
           /\ bresult' = s.result
           /\ IF s.raised
              THEN bpc' = "raised" /\ bout' = Fail(s.err) /\ bidx' = bidx
              ELSE bpc' = "loop" /\ bout' = bout /\ bidx' = bidx + 1
    /\ UNCHANGED <<bmap, fields0, bdata, rpc, order, rerr, tdata, idx, result,
                   extracted, tout, fvars, zvars, cvars, avars, mvars, wvars, kvars>>

\* the loop is over: return result
BoundTransformReturn ==
    /\ bpc = "loop" /\ bidx > Len(bound)
    /\ bpc' = "returned" /\ bout' = Ok(bresult)
    /\ UNCHANGED <<bmap, bound, fields0, bdata, bidx, bresult, fvars, zvars, svars,
                   cvars, avars, mvars, wvars, kvars>>

\* schema.transform(data) on the original schema, between the calls above
SchemaTransform ==
    /\ bpc # "loop" /\ rpc = "schema"
    /\ LET t == SchemaTransformOp(fields, bdata)
       IN  /\ tdata' = bdata /\ tout' = t.out /\ idx' = t.at /\ fields' = t.fields
           /\ result' = IF t.out.ok THEN t.out.val ELSE <<>>
           /\ rpc' = IF t.out.ok THEN "returned" ELSE "raised"
    /\ UNCHANGED <<order, rerr, extracted, fvars, zvars, bvars, cvars, avars, mvars,
                   wvars, kvars>>

InitBound ==
    /\ \E ks \in [1..Len(BoundNames) -> BoundKinds] :
         fields = [i \in 1..Len(BoundNames) |-> BoundKindField(BoundNames[i], ks[i])]
    /\ fields0 = fields
    /\ bdata \in BoundData
    /\ bmap = <<>> /\ bound = <<>> /\ bpc = "schema" /\ bidx = 0 /\ bresult = <<>>
    /\ bout = NoOutcome
    /\ rpc = "schema" /\ order = <<>> /\ rerr = NoErr
    /\ tdata = NoArgs.data /\ idx = 0 /\ result = <<>> /\ extracted = <<>>
    /\ tout = NoOutcome
    /\ fld = MkField(NoName) /\ snap = fld /\ FieldIdle /\ LaterIdle
    /\ CompIdle /\ AccIdle /\ MetaIdle /\ ValidateIdle /\ ThreadsIdle

NextBound ==
    \/ \E mp \in [1..Len(BoundNames) -> BindEntries] : Bind(mp)
    \/ BoundTransformCall
    \/ BoundTransformStep
    \/ BoundTransformReturn
    \/ SchemaTransform

SpecBound == InitBound /\ [][NextBound]_vars

---------------------------------------------------------------------------
(* Properties of bind and BoundSchema, checked under SpecBound *)

BindDone == bpc \notin {"off", "schema"}
KeptAttributes ==
    {"required", "default", "type", "choices", "mapping", "mapper", "target",
     "transient", "conditional", "dependencies", "conditions"}

\* C15: a field with an entry in the bind mapping (path, (path, transform) or
\* transform) is bound to a field that differs from the original only in
\* source and transform: required, default, type, choices, mapping, mapper,
\* target, transient, conditional, dependencies and conditions are kept, for
\* leaf and composite fields alike.
C15_BindKeepsAttributes ==
    (BindDone /\ \A i \in 1..Len(bmap) : bmap[i].kind # "invalid") =>
        /\ bpc # "bindfailed"
        /\ \A i \in 1..Len(bound) :
             bmap[i].kind # "none" =>
               /\ IsLeaf(fields0[i]) <=> IsLeaf(bound[i].fld)
               /\ \A at \in KeptAttributes \cap DOMAIN fields0[i] :
                    bound[i].fld[at] = fields0[i][at]

NoEntries == \A i \in 1..Len(bmap) : bmap[i] = NoEntry
BothRan ==
    /\ bpc \in {"returned", "raised"} /\ rpc \in {"returned", "raised"}
    /\ tdata = bdata

\* C16: bound with the empty mapping, a schema gives the same outcome as
\* unbound: the same result map when transform succeeds, a failure on the
\* same field when it fails.
C16_EmptyBindSame ==
    (NoEntries /\ BothRan) =>
        /\ bout.ok <=> tout.ok
        /\ bout.ok => bout.val = tout.val
        /\ ~bout.ok => (bidx = idx /\ bout.err.names = tout.err.names
                        /\ bout.err.kind = tout.err.kind)

\* a is extracted by both, both fail on the required field b
C16_Witness ==
    /\ NoEntries /\ BothRan
    /\ fields0[1] = KindField("a", "P") /\ fields0[2] = KindField("b", "R")
    /\ bdata["a"] = SPad3 /\ bdata["b"] = MISSING
    /\ ~bout.ok /\ ~tout.ok /\ bidx = 2 /\ idx = 2

\* C17: bind, for any mapping, and any later BoundSchema.transform leave the
\* original schema as it was: same keys in the same order, every field with
\* all its attribute values, the same Schema.transform result; a field whose
\* name has no entry is used by the BoundSchema as the original field itself.
C17_BindLeavesOriginal ==
    /\ bpc # "off" =>
         /\ fields = fields0
         /\ rpc \in {"returned", "raised"} =>
              tout = SchemaTransformOp(fields0, tdata).out
    /\ bpc \in {"bound", "loop", "returned", "raised"} =>
         \A i \in 1..Len(bound) :
            /\ bmap[i] = NoEntry => bound[i].shared
            /\ bmap[i] # NoEntry => ~bound[i].shared

\* a was rebound to another path, b has no entry; the bound schema has run and
\* the original schema was run after it
C17_Witness ==
    /\ bpc = "returned" /\ rpc = "returned"
    /\ bmap[1].kind = "str" /\ bmap[2] = NoEntry
    /\ fields0[1] = BoundKindField("a", "S") /\ fields0[2] = KindField("b", "T")
    /\ bdata = [a |-> SPad3, b |-> MISSING, alt |-> SPad3]
    /\ Get(bout.val, "a") = S3 /\ Get(tout.val, "a") = I3

---------------------------------------------------------------------------
(* SchemaMeta: the definition of schema classes.  Field objects have an     *)
(* identity; a namespace and a registry are dicts <<key, object>> in order. *)

\* SchemaMeta.__new__: a field without a name takes its attribute name
RECURSIVE NameFields(_, _)
NameFields(names, ns) ==
    IF ns = <<>> THEN names
    ELSE LET attr == ns[1][1]
             obj  == ns[1][2]
         IN  NameFields(IF names[obj] = NoName THEN [names EXCEPT ![obj] = attr]
                        ELSE names,
                        Tail(ns))

\* a plausible slip: a name is accepted when it is any key of the registry,
\* and duplicate names are not looked for
ValidateFieldsKeysOnly(names, allfields) ==
    LET bad == {i \in 1..Len(allfields) :
                  /\ names[allfields[i][2]] # allfields[i][1]
                  /\ names[allfields[i][2]] \notin DictKeys(allfields)}
    IN  IF bad # {}
        THEN Err("NameMismatch", {allfields[i][1] : i \in bad}, NoValue)
        ELSE NoErr

\* SchemaMeta._validatefields: duplicate names, then name against key
ValidateFields(names, allfields) ==
    LET ns  == [i \in 1..Len(allfields) |-> names[allfields[i][2]]]
        dup == {i \in 1..Len(ns) : \E j \in 1..Len(ns) : j # i /\ ns[j] = ns[i]}
        bad == {i \in 1..Len(ns) : ns[i] # allfields[i][1]}
    IN  IF dup # {}
        THEN Err("DuplicateNames", {ns[i] : i \in dup}, NoValue)
        ELSE IF bad # {}
        THEN Err("NameMismatch",
                 {allfields[CHOOSE i \in bad : \A j \in bad : i <= j][1]}, NoValue)
        ELSE NoErr

\* type(name, bases, namespace) through SchemaMeta.__new__
MetaNew(names, inherited, ns) ==
    LET named == NameFields(names, ns)
        all   == DictUpdate(inherited, ns)
        err   == ValidateFields(named, all)
    IN  [ok |-> err = NoErr, names |-> named, fields |-> all, err |-> err]

Attrs    == {"a", "b"}
Objects  == 1..3
ObjNames == {NoName, "a", "b"}
Namespaces ==
    UNION {{ns \in [1..n -> Attrs \X Objects] :
              \A i, j \in 1..n : i # j => ns[i][1] # ns[j][1]} :
           n \in 1..Cardinality(Attrs)}

\* what a definition leaves behind: the class, or the error
Created(m, ns) ==
    /\ nsp' = [i \in 1..Len(ns) |-> <<ns[i][1], ns[i][2], objs[ns[i][2]]>>]
    /\ objs' = m.names
    /\ IF m.ok
       THEN mpc' = "created" /\ mout' = NoErr /\ inh' = mreg /\ mreg' = m.fields
       ELSE mpc' = "failed" /\ mout' = m.err /\ inh' = inh /\ mreg' = mreg
    /\ UNCHANGED <<fvars, zvars, svars, cvars, avars, bvars, wvars, kvars>>

\* class X(Schema) or class X(Latest), and Latest.FromFields(**fields)
ClassStatement(ns, base) ==
    /\ mpc # "off"
    /\ Created(MetaNew(objs, IF base THEN mreg ELSE <<>>, ns), ns)

\* Latest.Copy(**overrides)
Copy(overrides) ==
    /\ mpc # "off"
    /\ LET new == DictUpdate(mreg, overrides)
       IN  Created(MetaNew(objs, <<>>, new), new)

\* latest.subset(*fieldnames)
Subset(fieldnames) ==
    /\ mpc # "off"
    /\ LET keep == SelectSeq(mreg, LAMBDA e : e[1] \in fieldnames)
       IN  IF keep = <<>>
           THEN /\ mpc' = "failed" /\ mout' = Err("NoValidFields", {}, NoValue)
                /\ nsp' = <<>>
                /\ UNCHANGED <<objs, inh, mreg, fvars, zvars, svars, cvars, avars, bvars,
                               wvars, kvars>>
           ELSE Created(MetaNew(objs, <<>>, keep), keep)

\* Latest.Merge(Earlier, Latest)
Merge ==
    /\ mpc # "off"
    /\ LET merged == DictUpdate(inh, mreg)
       IN  Created(MetaNew(objs, mreg, merged), merged)

InitMeta ==
    /\ objs \in [Objects -> ObjNames]
    /\ nsp = <<>> /\ inh = <<>> /\ mreg = <<>> /\ mpc = "start" /\ mout = NoErr
    /\ fld = MkField(NoName) /\ snap = fld /\ FieldIdle /\ LaterIdle /\ OtherIdle
    /\ CompIdle /\ AccIdle /\ BoundIdle /\ ValidateIdle /\ ThreadsIdle

NextMeta ==
    \/ \E ns \in Namespaces : \E base \in BOOLEAN : ClassStatement(ns, base)
    \/ \E ov \in Namespaces : Copy(ov)
    \/ \E fn \in SUBSET Attrs : Subset(fn)
    \/ Merge

SpecMeta == InitMeta /\ [][NextMeta]_vars

---------------------------------------------------------------------------
(* Properties of schema definition, checked under SpecMeta *)

\* every entry's name is its key, and no name occurs twice
WellNamed(reg) ==
    /\ \A i \in 1..Len(reg) : objs[reg[i][2]] = reg[i][1]
    /\ \A i, j \in 1..Len(reg) : objs[reg[i][2]] = objs[reg[j][2]] => i = j

\* the last definition had a field with an explicit name other than its
\* attribute name, or two attributes carrying the same field or name
IllNamed ==
    \/ \E i \in 1..Len(nsp) : nsp[i][3] # NoName /\ nsp[i][3] # nsp[i][1]
    \/ \E i, j \in 1..Len(nsp) :
         i # j /\ (nsp[i][2] = nsp[j][2] \/ (nsp[i][3] # NoName /\ nsp[i][3] = nsp[j][3]))

\* C18: in every schema class that was defined each registered field's name
\* is its registry key and no two registered fields share a name; a
\* definition with a field whose explicit name differs from its attribute
\* name, or with two fields of the same name, fails and creates no class.
C18_RegistryNames ==
    /\ [](/\ WellNamed(mreg) /\ WellNamed(inh)
          /\ (mpc \in {"created", "failed"} /\ IllNamed) =>
                 (mpc = "failed" /\ mout # NoErr))
    /\ [][mpc' = "failed" => (mreg' = mreg /\ inh' = inh)]_vars

\* after a class with the fields a and b was defined, a class statement with
\* b = <a field named 'a'> is rejected
C18_Witness ==
    /\ mpc = "failed" /\ mout.kind = "NameMismatch"
    /\ Len(mreg) = 2 /\ Len(nsp) = 1 /\ nsp[1][1] = "b" /\ nsp[1][3] = "a"

---------------------------------------------------------------------------
(* Schema.validate over a registry *)

\* a plausible slip: only the first failure is recorded
ValidateFieldFirst(f, data, errs) ==
    LET r == FieldExtract(f, data)
    IN  [errors |-> IF r.res.ok \/ errs # <<>> THEN errs
                    ELSE DictSet(errs, f.name, r.res.err),
         fld |-> r.fld]

\* the loop body: field.extract(data), errors[fieldname] = str(e) on failure
ValidateField(f, data, errs) ==
    LET r == FieldExtract(f, data)
    IN  [errors |-> IF r.res.ok THEN errs ELSE DictSet(errs, f.name, r.res.err),
         fld |-> r.fld]

ValidateNames == <<"a", "b", "c">>

\* schema.validate(data) is called
ValidateCall(d) ==
    /\ rpc = "schema"
    /\ tdata' = d /\ idx' = 1 /\ verrs' = <<>> /\ extracted' = <<>>
    /\ vout' = NoOutcome /\ rpc' = "loop"
    /\ UNCHANGED <<fields, order, rerr, result, tout, fvars, zvars, cvars, avars, bvars,
                   mvars, kvars>>

\* one iteration of the loop over _fields.items()
ValidateStep ==
    /\ rpc = "loop" /\ idx <= Len(fields)
    /\ LET s == ValidateField(fields[idx], tdata, verrs)
       IN  /\ extracted' = Append(extracted, fields[idx].name)
           /\ fields' = [fields EXCEPT ![idx] = s.fld]
           /\ verrs' = s.errors
    /\ idx' = idx + 1
    /\ UNCHANGED <<rpc, tdata, order, rerr, result, tout, vout, fvars, zvars, cvars,
                   avars, bvars, mvars, kvars>>

\* the loop is over: return errors
ValidateReturn ==
    /\ rpc = "loop" /\ idx > Len(fields)
    /\ rpc' = "returned"
    /\ vout' = [ok |-> TRUE, val |-> verrs, err |-> NoErr]
    /\ UNCHANGED <<fields, tdata, idx, result, extracted, order, rerr, tout, verrs,
                   fvars, zvars, cvars, avars, bvars, mvars, kvars>>

InitValidate ==
    /\ \E n \in 1..Len(ValidateNames) :
         \E ks \in [1..n -> SchemaKinds] :
           fields = [i \in 1..n |-> KindField(ValidateNames[i], ks[i])]
    /\ rpc = "schema" /\ order = <<>> /\ rerr = NoErr
    /\ fld = MkField(NoName) /\ snap = fld /\ FieldIdle /\ LaterIdle
    /\ tdata = NoArgs.data /\ idx = 0 /\ result = <<>> /\ extracted = <<>>
    /\ tout = NoOutcome
    /\ verrs = <<>> /\ vout = NoOutcome
    /\ CompIdle /\ AccIdle /\ BoundIdle /\ MetaIdle /\ ThreadsIdle

NextValidate ==
    \/ \E d \in SchemaData : ValidateCall(d)
    \/ ValidateStep
    \/ ValidateReturn

SpecValidate == InitValidate /\ [][NextValidate]_vars

---------------------------------------------------------------------------
(* Properties of Schema.validate, checked under SpecValidate *)

FailsAgainst(i) == ~FieldExtract(fields[i], tdata).res.ok

\* C19: validate never raises for a field-level failure, extracts every field
\* also after an earlier one failed, and returns a map whose keys are the
\* names of the fields that fail against the data, each with its error; the
\* map is empty when every field extracts.
C19_ValidateCollects ==
    /\ rpc \in {"schema", "loop", "returned"}
    /\ rpc = "returned" =>
         /\ vout.ok
         /\ extracted = [i \in 1..Len(fields) |-> fields[i].name]
         /\ Keys(vout.val) = {fields[i].name : i \in {j \in 1..Len(fields) : FailsAgainst(j)}}
         /\ \A i \in 1..Len(fields) :
              FailsAgainst(i) =>
                 Get(vout.val, fields[i].name) = FieldExtract(fields[i], tdata).res.err

\* a and c fail, b between them extracts: both failures are reported
C19_Witness ==
    /\ rpc = "returned"
    /\ fields = <<KindField("a", "R"), KindField("b", "P"), KindField("c", "Vd")>>
    /\ tdata["a"] = MISSING /\ tdata["b"] = SX
    /\ Keys(vout.val) = {"a", "c"} /\ extracted = <<"a", "b", "c">>

---------------------------------------------------------------------------
(* SourceField.extract, and two threads that extract from one SourceField  *)

SourceField(src, fallbacks, req) ==
    [fallbacks |-> fallbacks, condition |-> NoCallable] @@
    [MkField("s") EXCEPT !.source = src, !.required = req]

\* the leaf attributes of a SourceField, for the inherited Field.extract
AsField(f) == [at \in DOMAIN MkField(NoName) |-> f[at]]

\* SourceField._extractwithfallbacks run alone, from fallback j on
RECURSIVE ExtractWithFallbacks(_, _, _)
ExtractWithFallbacks(f, data, j) ==
    IF j > Len(f.fallbacks)
    THEN IF f.required THEN Fail(Err("NotFoundInSources", {f.name}, NoValue))
         ELSE Ok(f.default)
    ELSE LET r == RunPipeline([AsField(f) EXCEPT !.source = f.fallbacks[j]], data)
         IN  IF r.ok THEN r ELSE ExtractWithFallbacks(f, data, j + 1)

\* SourceField.extract run alone (no condition)
SourceExtractOp(f, data) ==
    LET r == RunPipeline(AsField(f), data)
    IN  IF r.ok /\ r.val # f.default THEN r
        ELSE ExtractWithFallbacks(f, data, 1)

MaxFallbacks == 2
FallbackSeq  == <<"alt", "alt2", "k">>
Threads      == {1, 2}
ThreadData   == [{"k", "alt", "alt2"} -> {MISSING, SX}]
NoLocals     == [orig |-> NoSource, j |-> 0, pend |-> NoOutcome]

\* thread t calls sf.extract(data)
TCall(t) ==
    /\ tpc[t] = "idle"
    /\ tpc' = [tpc EXCEPT ![t] = "primary"]
    /\ UNCHANGED <<sf, sf0, tloc, tdat, tres, fvars, zvars, svars, cvars, avars, bvars,
                   mvars, wvars>>

\* result = super().extract(data), then the test against self.default
TPrimary(t) ==
    /\ tpc[t] = "primary"
    /\ LET r == RunPipeline(AsField(sf), tdat[t])
       IN  IF r.ok /\ r.val # sf.default
           THEN tpc' = [tpc EXCEPT ![t] = "done"] /\ tres' = [tres EXCEPT ![t] = r]
           ELSE tpc' = [tpc EXCEPT ![t] = "enter"] /\ tres' = tres
    /\ UNCHANGED <<sf, sf0, tloc, tdat, fvars, zvars, svars, cvars, avars, bvars, mvars,
                   wvars>>

\* _extractwithfallbacks: originalsource = self.source
TEnter(t) ==
    /\ tpc[t] = "enter"
    /\ tloc' = [tloc EXCEPT ![t] = [orig |-> sf.source, j |-> 1, pend |-> NoOutcome]]
    /\ tpc' = [tpc EXCEPT ![t] = "loop"]
    /\ UNCHANGED <<sf, sf0, tdat, tres, fvars, zvars, svars, cvars, avars, bvars, mvars,
                   wvars>>

\* the next fallback: self.source = fallbacksource
TSet(t) ==
    /\ tpc[t] = "loop" /\ tloc[t].j <= Len(sf.fallbacks)
    /\ sf' = [sf EXCEPT !.source = sf.fallbacks[tloc[t].j]]
    /\ tpc' = [tpc EXCEPT ![t] = "run"]
    /\ UNCHANGED <<sf0, tloc, tdat, tres, fvars, zvars, svars, cvars, avars, bvars, mvars,
                   wvars>>

\* result = super().extract(data), with the source the field has now
TRun(t) ==
    /\ tpc[t] = "run"
    /\ tloc' = [tloc EXCEPT ![t].pend = RunPipeline(AsField(sf), tdat[t])]
    /\ tpc' = [tpc EXCEPT ![t] = "restore"]
    /\ UNCHANGED <<sf, sf0, tdat, tres, fvars, zvars, svars, cvars, avars, bvars, mvars,
                   wvars>>

\* finally: self.source = originalsource; then return result, or continue
TRestore(t) ==
    /\ tpc[t] = "restore"
    /\ sf' = [sf EXCEPT !.source = tloc[t].orig]
    /\ IF tloc[t].pend.ok
       THEN /\ tpc' = [tpc EXCEPT ![t] = "done"]
            /\ tres' = [tres EXCEPT ![t] = tloc[t].pend]
            /\ tloc' = tloc
       ELSE /\ tpc' = [tpc EXCEPT ![t] = "loop"]
            /\ tres' = tres
            /\ tloc' = [tloc EXCEPT ![t].j = @ + 1]
    /\ UNCHANGED <<sf0, tdat, fvars, zvars, svars, cvars, avars, bvars, mvars, wvars>>

\* all fallbacks failed: raise when required, else return the default
TExhausted(t) ==
    /\ tpc[t] = "loop" /\ tloc[t].j > Len(sf.fallbacks)
    /\ tpc' = [tpc EXCEPT ![t] = "done"]
    /\ tres' = [tres EXCEPT ![t] =
                  IF sf.required THEN Fail(Err("NotFoundInSources", {sf.name}, NoValue))
                  ELSE Ok(sf.default)]
    /\ UNCHANGED <<sf, sf0, tloc, tdat, fvars, zvars, svars, cvars, avars, bvars, mvars,
                   wvars>>

InitThreads ==
    /\ \E n \in 0..MaxFallbacks :
         \E req \in BOOLEAN :
           sf = SourceField("k", SubSeq(FallbackSeq, 1, n), req)
    /\ sf0 = sf
    /\ tdat \in [Threads -> ThreadData]
    /\ tpc = [t \in Threads |-> "idle"]
    /\ tloc = [t \in Threads |-> NoLocals]
    /\ tres = [t \in Threads |-> NoOutcome]
    /\ fld = MkField(NoName) /\ snap = fld /\ FieldIdle /\ LaterIdle /\ OtherIdle
    /\ CompIdle /\ AccIdle /\ BoundIdle /\ MetaIdle /\ ValidateIdle

NextThreads ==
    \/ \E t \in Threads : TCall(t)
    \/ \E t \in Threads : TPrimary(t)
    \/ \E t \in Threads : TEnter(t)
    \/ \E t \in Threads : TSet(t)
    \/ \E t \in Threads : TRun(t)
    \/ \E t \in Threads : TRestore(t)
    \/ \E t \in Threads : TExhausted(t)

SpecThreads == InitThreads /\ [][NextThreads]_vars

---------------------------------------------------------------------------
(* Properties of concurrent extraction, checked under SpecThreads *)

AllDone == \A t \in Threads : tpc[t] = "done"

\* C20: two threads that extract from the same field with different data need
\* no lock: under every interleaving each thread gets the result it gets alone
\* and the field's attributes are afterwards what they were.
C20_ConcurrentReadSafe ==
    AllDone =>
        /\ \A t \in Threads : tres[t] = SourceExtractOp(sf0, tdat[t])
        /\ sf = sf0

---------------------------------------------------------------------------
(* Error messages of Field.extract, checked under SpecField *)

\* the failures whose message is about one value of the data
ValueFailures == {"TypeCastFailure", "ChoiceViolation", "MappingLookupFailure"}

\* C21: every error raised by extract names the offending field, and names
\* the offending value where there is one: a required-value, type-cast,
\* choices or mapping-lookup failure of a Field carries the field's name, and
\* the last three carry the value that was rejected.
C21_ErrorsNameField ==
    (Raised /\ last.err.kind \in ValueFailures \cup {"RequiredValueMissing"}) =>
        /\ snap.name \in last.err.names
        /\ (last.err.kind \in ValueFailures => last.err.value # NoValue)

---------------------------------------------------------------------------
(* A Field constructed with a validator callable *)

\* the validators of the tests: each raises on a value it rejects
CallValidator(vd, v) ==
    CASE vd = "isThree" -> IF v = I3 THEN Ok(NoneV)
                           ELSE Fail(Err("ValidatorError", {}, NoValue))
      [] vd = "notNone" -> IF v # NoneV THEN Ok(NoneV)
                           ELSE Fail(Err("ValidatorError", {}, NoValue))
      [] OTHER          -> Ok(NoneV)

Validators == {"isThree", "notNone"}

\* BaseField.__init__ has no validator parameter: the keyword lands in **kwargs
FieldWithValidator(f, vd) == [field |-> f, kwargs |-> [validator |-> vd]]

ValidatorFields ==
    { [MkField("a") EXCEPT !.source = "k", !.transform = t, !.type = ty,
                           !.mapping = m[1], !.mapper = m[2], !.choices = ch,
                           !.default = d, !.required = r] :
        t \in Transforms, ty \in Types, m \in MapCombos,
        ch \in ChoiceSets, d \in Defaults, r \in BOOLEAN }

\* Field.extract of a non-conditional field: the pipeline, whose validate
\* stage is BaseField.validate; nothing reads _kwargs
ValidatorExtract(d) ==
    /\ valdata' = d
    /\ valout' = RunPipeline(valf, d)
    /\ UNCHANGED <<valf, valkw, valcalls, fvars, svars, cvars, avars, bvars, mvars,
                   wvars, kvars, hvars, rvars>>

InitValidator ==
    /\ \E f \in ValidatorFields : \E vd \in Validators :
         LET c == FieldWithValidator(f, vd)
         IN  valf = c.field /\ valkw = c.kwargs
    /\ valcalls = <<>> /\ valdata = <<>> /\ valout = NoOutcome
    /\ fld = MkField(NoName) /\ snap = fld /\ FieldIdle /\ OtherIdle
    /\ CompIdle /\ AccIdle /\ BoundIdle /\ MetaIdle /\ ValidateIdle /\ ThreadsIdle
    /\ PathIdle /\ ReentrantIdle

NextValidator == \E d \in DataSet : ValidatorExtract(d)

SpecValidator == InitValidator /\ [][NextValidator]_vars

\* the value that leaves the transform, type-cast, mapping and choices stages
BeforeValidate(f, data) ==
    LET raw == Ok(GetSourceValue(f, data))
        t   == IF raw.ok THEN ApplyTransform(f, raw.val) ELSE raw
        ty  == IF t.ok THEN ApplyType(f, t.val) ELSE t
        mp  == IF ty.ok THEN ApplyMapping(f, ty.val) ELSE ty
    IN  IF mp.ok THEN ValidateChoices(f, mp.val) ELSE mp

\* C22: a callable passed as validator is invoked once during every extract,
\* with the value produced by the transform, type-cast and mapping stages;
\* when it raises, extract fails, and otherwise extract returns that value.
C22_ValidatorInvoked ==
    (valdata # <<>> /\ BeforeValidate(valf, valdata).ok) =>
        LET v == BeforeValidate(valf, valdata).val
        IN  /\ valcalls = <<v>>
            /\ ~CallValidator(valkw.validator, v).ok => ~valout.ok

---------------------------------------------------------------------------
(* Path resolution: data and target objects as trees *)

MaxDepth == 2               \* segments of a path

Segs == {"a", "b"}

RECURSIVE PathsOfLen(_)
PathsOfLen(n) ==
    IF n = 0 THEN {<<>>}
    ELSE {<<s>> \o p : s \in Segs, p \in PathsOfLen(n - 1)}

RelPaths(d) == UNION {PathsOfLen(n) : n \in 0..d}
Paths       == RelPaths(MaxDepth)

DictTok    == "<dict>"      \* key-indexable: has get, __getitem__, __setitem__
ObjTok     == "<object>"    \* a plain object: attributes only
Containers == {DictTok, ObjTok}
LeafTokens == {MISSING, NoneV, SX}

\* a tree maps every path to what is stored there; MISSING: nothing
Leaf(v, d) == [p \in RelPaths(d) |-> IF p = <<>> THEN v ELSE MISSING]

TreeNode(kind, ta, vb, d) ==
    [p \in RelPaths(d) |->
        IF p = <<>> THEN kind
        ELSE IF Head(p) = "a" THEN ta[Tail(p)]
        ELSE IF p = <<"b">> THEN vb
        ELSE MISSING]

RECURSIVE Trees(_)
Trees(d) ==
    {Leaf(v, d) : v \in LeafTokens}
    \cup (IF d = 0 THEN {}
          ELSE {TreeNode(k, ta, vb, d) :
                   k \in Containers, ta \in Trees(d - 1), vb \in LeafTokens})

Stores == {t \in Trees(MaxDepth) : t[<<>>] \in Containers}

\* '.'.join(parts) and source.split('.')
DotJoin(parts) == Join(parts, ".")
Split(path)    == CHOOSE parts \in Paths \ {<<>>} : DotJoin(parts) = path
Dotted(path)   == Len(Split(path)) > 1

PathStrings == {DotJoin(parts) : parts \in Paths \ {<<>>}}

\* hasattr(current, part)
HasAttr(st, path, part) == st[path] = ObjTok /\ st[Append(path, part)] # MISSING

\* the field of this section: a Field, or NestedField(Field, nestedpath)
PathField(p, np, d) ==
    [MkField("a") EXCEPT !.source = p, !.target = p, !.default = d]
        @@ [nestedpath |-> np]

PathDepth(p) == IF p = NoSource THEN 0 ELSE Len(Split(p))

PathFields ==
    { PathField(c[1], c[2], d) :
        c \in {q \in (PathStrings \cup {NoSource}) \X (PathStrings \cup {NoSource}) :
                    PathDepth(q[1]) + PathDepth(q[2]) <= MaxDepth},
        d \in Defaults }

\* return or raise out of the retrieval
PathDone(out) ==
    /\ ppc' = "read" /\ pout' = out
    /\ pparts' = <<>> /\ pidx' = 0 /\ pcurr' = <<>>

\* return or raise out of assign
AssignDone(out) ==
    /\ ppc' = "assigned" /\ pout' = out
    /\ pparts' = <<>> /\ pidx' = 0 /\ pcurr' = <<>>

PathRest == <<fvars, svars, cvars, avars, bvars, mvars, wvars, kvars, pvars, rvars>>

\* BaseField._getsourcevalue
GetSourceValueCall ==
    /\ ppc = "idle" /\ pf.nestedpath = NoSource
    /\ IF pf.source = NoSource
       THEN PathDone(Ok(pf.default))
       ELSE IF Dotted(pf.source)
       THEN /\ ppc' = "getnested" /\ pparts' = Split(pf.source)
            /\ pidx' = 1 /\ pcurr' = <<>> /\ pout' = pout
       ELSE IF store[<<>>] = DictTok
       THEN PathDone(Ok(IF store[<<pf.source>>] = MISSING THEN pf.default
                        ELSE store[<<pf.source>>]))
       ELSE IF HasAttr(store, <<>>, pf.source)
       THEN PathDone(Ok(store[<<pf.source>>]))
       ELSE PathDone(Ok(pf.default))
    /\ UNCHANGED <<store, store0, pf, PathRest>>

\* a plausible slip: a None found under a segment is handed on
NestedNoneIsValue(v) == v = MISSING

\* dict.get(part) gives None for a missing key; `if current is None`
NestedNone(v) == v \in {MISSING, NoneV}

\* BaseField._getnestedvalue: one round of the loop, or the return after it
GetNestedValueStep ==
    /\ ppc = "getnested"
    /\ IF pidx > Len(pparts)
       THEN PathDone(Ok(store[pcurr]))
       ELSE LET nxt == Append(pcurr, pparts[pidx])
            IN  IF store[pcurr] = DictTok \/ HasAttr(store, pcurr, pparts[pidx])
                THEN IF NestedNone(store[nxt])
                     THEN PathDone(Ok(pf.default))
                     ELSE /\ pcurr' = nxt /\ pidx' = pidx + 1
                          /\ UNCHANGED <<ppc, pparts, pout>>
                ELSE PathDone(Ok(pf.default))
    /\ UNCHANGED <<store, store0, pf, PathRest>>

---------------------------------------------------------------------------
(* Assignment through a target path *)

IsPrefix(p, q) == Len(p) <= Len(q) /\ SubSeq(q, 1, Len(p)) = p

\* current[key] = v or setattr(current, key, v): what was below is replaced
SetAt(st, p, v) ==
    [q \in DOMAIN st |-> IF q = p THEN v
                         ELSE IF IsPrefix(p, q) THEN MISSING
                         ELSE st[q]]

\* BaseField._applytargetvalue on the object at base, with the value 'x'
ApplyTargetValue(base) ==
    IF pf.target = NoSource
    THEN /\ AssignDone(Fail(Err("NoTarget", {pf.name}, NoValue)))
         /\ store' = store
    ELSE IF Dotted(pf.target)
    THEN /\ ppc' = "setnested" /\ pparts' = Split(pf.target)
         /\ pidx' = 1 /\ pcurr' = base /\ pout' = pout
         /\ store' = store
    ELSE IF store[base] \in Containers
    THEN /\ store' = SetAt(store, Append(base, pf.target), SX)
         /\ AssignDone(Ok(NoneV))
    ELSE /\ AssignDone(Fail(Err("CannotSetTarget", {}, NoValue)))
         /\ store' = store

\* Field.assign: validate is the identity, then _applytargetvalue
AssignCall ==
    /\ ppc = "idle" /\ pf.nestedpath = NoSource
    /\ ApplyTargetValue(<<>>)
    /\ UNCHANGED <<store0, pf, PathRest>>

\* BaseField._applynestedtargetvalue: one round of the loop over
\* pathparts[:-1], or the final write
SetNestedStep ==
    /\ ppc = "setnested"
    /\ LET nxt == Append(pcurr, pparts[pidx])
       IN  IF pidx < Len(pparts)
           THEN IF store[pcurr] = DictTok
                THEN /\ store' = IF store[nxt] = MISSING
                                 THEN SetAt(store, nxt, DictTok) ELSE store
                     /\ pcurr' = nxt /\ pidx' = pidx + 1
                     /\ UNCHANGED <<ppc, pparts, pout>>
                ELSE IF HasAttr(store, pcurr, pparts[pidx])
                THEN /\ pcurr' = nxt /\ pidx' = pidx + 1
                     /\ UNCHANGED <<store, ppc, pparts, pout>>
                ELSE /\ AssignDone(Fail(Err("CannotNavigate", {}, NoValue)))
                     /\ store' = store
           ELSE IF store[pcurr] \in Containers
                THEN /\ store' = SetAt(store, nxt, SX)
                     /\ AssignDone(Ok(NoneV))
                ELSE /\ AssignDone(Fail(Err("AttributeError", {}, NoValue)))
                     /\ store' = store
    /\ UNCHANGED <<store0, pf, PathRest>>

\* NestedField.assign
NestedAssignCall ==
    /\ ppc = "idle" /\ pf.nestedpath # NoSource
    /\ ppc' = "getorcreate" /\ pparts' = Split(pf.nestedpath)
    /\ pidx' = 1 /\ pcurr' = <<>>
    /\ UNCHANGED <<store, store0, pf, pout, PathRest>>

\* NestedField._getorcreatenested: one round of the loop; after the loop,
\* self.field.assign(nestedtarget, value)
GetOrCreateStep ==
    /\ ppc = "getorcreate"
    /\ IF pidx > Len(pparts)
       THEN ApplyTargetValue(pcurr)
       ELSE LET nxt == Append(pcurr, pparts[pidx])
            IN  IF store[pcurr] = DictTok
                THEN /\ store' = IF store[nxt] = MISSING
                                 THEN SetAt(store, nxt, DictTok) ELSE store
                     /\ pcurr' = nxt /\ pidx' = pidx + 1
                     /\ UNCHANGED <<ppc, pparts, pout>>
                ELSE IF HasAttr(store, pcurr, pparts[pidx])
                THEN /\ pcurr' = nxt /\ pidx' = pidx + 1
                     /\ UNCHANGED <<store, ppc, pparts, pout>>
                ELSE IF store[pcurr] = ObjTok
                THEN /\ store' = SetAt(store, nxt, DictTok)
                     /\ pcurr' = nxt /\ pidx' = pidx + 1
                     /\ UNCHANGED <<ppc, pparts, pout>>
                ELSE /\ AssignDone(Fail(Err("CannotCreateNestedPath", {}, NoValue)))
                     /\ store' = store
    /\ UNCHANGED <<store0, pf, PathRest>>

InitPath ==
    /\ store \in Stores /\ store0 = store
    /\ pf \in PathFields
    /\ ppc = "idle" /\ pparts = <<>> /\ pidx = 0 /\ pcurr = <<>> /\ pout = NoOutcome
    /\ fld = MkField(NoName) /\ snap = fld /\ FieldIdle /\ OtherIdle
    /\ CompIdle /\ AccIdle /\ BoundIdle /\ MetaIdle /\ ValidateIdle /\ ThreadsIdle
    /\ ValidatorIdle /\ ReentrantIdle

NextPath ==
    \/ GetSourceValueCall
    \/ GetNestedValueStep
    \/ AssignCall
    \/ SetNestedStep
    \/ NestedAssignCall
    \/ GetOrCreateStep

SpecPath == InitPath /\ [][NextPath]_vars

---------------------------------------------------------------------------
(* Properties of raw retrieval, checked under SpecPath *)

Retrieved   == ppc = "read" /\ pf.source # NoSource
SourceParts == Split(pf.source)
UpToSeg(i)  == SubSeq(SourceParts, 1, i)

\* some segment of the source path is not there / is there and holds None
SegmentMissing == \E i \in 1..Len(SourceParts) : store[UpToSeg(i)] = MISSING
SegmentNone    == \E i \in 1..Len(SourceParts) : store[UpToSeg(i)] = NoneV

\* C23 as stated: whenever a segment of the source path is missing or resolves
\* to None (a key present with the value None included), the raw value is the
\* field's default, for single-segment and dotted paths alike.
C23_UnresolvedYieldsDefault ==
    (Retrieved /\ (SegmentMissing \/ SegmentNone)) => pout = Ok(pf.default)

\* C23 amended: the raw value is the default when the field has no source,
\* when a segment is missing, and, for a dotted path, when a segment resolves
\* to None; a single-segment path whose key or attribute is present yields
\* what is stored there, None included; a fully resolved path yields the
\* value at its end.
C23_RawRetrieval ==
    ppc = "read" =>
        IF pf.source = NoSource THEN pout = Ok(pf.default)
        ELSE IF SegmentMissing THEN pout = Ok(pf.default)
        ELSE IF Dotted(pf.source) /\ SegmentNone THEN pout = Ok(pf.default)
        ELSE pout = Ok(store[SourceParts])

\* a dotted path into an object whose last attribute holds None, with a
\* default that is not None
C23_Witness ==
    /\ Retrieved /\ Dotted(pf.source)
    /\ store[<<>>] = ObjTok
    /\ ~SegmentMissing /\ store[SourceParts] = NoneV
    /\ pf.default = I9 /\ pout = Ok(I9)

---------------------------------------------------------------------------
(* Properties of assignment, checked under SpecPath *)

Assigned == ppc = "assigned"

PartsOf(p) == IF p = NoSource THEN <<>> ELSE Split(p)

\* the whole path of the write: the nested path, then the target
TargetParts == PartsOf(pf.nestedpath) \o PartsOf(pf.target)

\* the segments before the last one
Intermediate == {SubSeq(TargetParts, 1, i) : i \in 1..(Len(TargetParts) - 1)}

Parent(p)    == SubSeq(p, 1, Len(p) - 1)
CreatedAt(p) == store0[p] = MISSING /\ store[p] # MISSING

\* C24: assignment through a dotted target path or a nested path creates a
\* missing intermediate segment only as an empty map stored in a key-indexable
\* container, leaves the other entries of the containers it traverses
\* unchanged, never creates an attribute on an attribute-bearing object for an
\* intermediate segment, and fails when such an object lacks the segment.
C24_AssignCreatesOnlyMaps ==
    Assigned =>
        /\ \A p \in Intermediate :
              /\ CreatedAt(p) => (store[p] = DictTok /\ store[Parent(p)] = DictTok)
              /\ (store0[Parent(p)] = ObjTok /\ store0[p] = MISSING)
                    => (~pout.ok /\ store = store0)
        /\ \A q \in Paths :
              (~IsPrefix(TargetParts, q) /\ ~CreatedAt(q)) => store[q] = store0[q]

---------------------------------------------------------------------------
(* Keys of a CombinedField result, checked under SpecComposite *)

Unnamed(i)     == comp.fields[i].name = NoName
PositionKey(i) == "field" \o NumStr(i - 1)

\* child i succeeded and its value is one that extract records
Recorded(i) ==
    /\ Yield(i).ok
    /\ Unnamed(i) \/ Yield(i).val # NoneV \/ comp.fields[i].required

\* C25: a child without a name is recorded under a key given by its position
\* in the child list, however many entries the other children contributed,
\* and no child's entry is overwritten by the entry of another child: in the
\* returned map every recorded child's value is found under its own key.
C25_PositionalKeys ==
    (CompDone("CombinedField") /\ cout.ok) =>
        \A i \in 1..Len(comp.fields) :
            Recorded(i) =>
                LET key == IF Unnamed(i) THEN PositionKey(i) ELSE comp.fields[i].name
                IN  key \in Keys(cout.val) /\ Get(cout.val, key) = Yield(i).val

---------------------------------------------------------------------------
(* SourceField.extract run by one thread alone, checked under SpecThreads *)

\* thread t has finished its extract and no other thread has started one
RanAlone(t) == tpc[t] = "done" /\ \A u \in Threads \ {t} : tpc[u] = "idle"

\* the primary source, then the fallback paths in list order
SourcePaths == <<sf0.source>> \o sf0.fallbacks

PresentPaths(t) == {i \in 1..Len(SourcePaths) : tdat[t][SourcePaths[i]] # MISSING}

\* C26: extract returns the value of the first path, primary then fallbacks
\* in list order, that is present in the data; only when no path is present
\* does it return the default or, for a required field, raise; after the call
\* the source attribute is the original primary source.
C26_FirstPresentPath ==
    \A t \in Threads :
        RanAlone(t) =>
            /\ PresentPaths(t) # {} =>
                  tres[t] = Ok(tdat[t][SourcePaths[MinOf(PresentPaths(t))]])
            /\ PresentPaths(t) = {} =>
                  /\ sf0.required => ~tres[t].ok
                  /\ ~sf0.required => tres[t] = Ok(sf0.default)
            /\ sf.source = sf0.source

---------------------------------------------------------------------------
(* Two threads that extract from one conditional Field *)

\* one condition each: the override of default, the override of required
ReentrantConds == { << <<"default", "lst">> >>, << <<"required", "isNone">> >> }

ReentrantFields ==
    { [MkField("a") EXCEPT !.source = "k", !.conditional = TRUE,
                           !.dependencies = <<"c">>, !.conditions = cd,
                           !.default = d, !.required = r] :
        cd \in ReentrantConds, d \in Defaults, r \in BOOLEAN }

ReentrantArgs ==
    { [data |-> [k |-> v, alt |-> I3], hascomputed |-> TRUE,
       computed |-> [NoComputed EXCEPT !["c"] = c]] :
        v \in {MISSING, SX}, c \in {NoneV, I9} }

NoFrame == [evaluated |-> <<>>, originals |-> NoOriginals, pend |-> NoOutcome]

ReentrantRest == <<fvars, svars, cvars, avars, bvars, mvars, wvars, kvars, pvars, hvars>>

\* between originals = {...} and the end of the finally block
InWindow(t) == rtpc[t] \in {"swap", "run", "restore"}

\* Field.extract is called by thread t: _evaluateconditions(computed)
RCall(t) ==
    /\ rtpc[t] = "idle"
    /\ LET ev == EvaluateConditions(rf, rtargs[t].computed)
       IN  IF ~ev.ok
           THEN /\ rtpc' = [rtpc EXCEPT ![t] = "done"]
                /\ rtres' = [rtres EXCEPT ![t] = Fail(ev.err)]
                /\ rtloc' = rtloc
           ELSE IF HasKey(ev.val, "value")
           THEN /\ rtpc' = [rtpc EXCEPT ![t] = "done"]
                /\ rtres' = [rtres EXCEPT ![t] = Ok(ValueOf(ev.val, "value"))]
                /\ rtloc' = rtloc
           ELSE /\ rtpc' = [rtpc EXCEPT ![t] = "save"]
                /\ rtloc' = [rtloc EXCEPT ![t].evaluated = ev.val]
                /\ rtres' = rtres
    /\ UNCHANGED <<rf, rf0, rtargs, overlapped, ReentrantRest>>

\* _extractwithoverrides: originals[prop] = getattr(self, prop)
RSave(t) ==
    /\ rtpc[t] = "save"
    /\ rtloc' = [rtloc EXCEPT ![t].originals = SaveOriginals(rf)]
    /\ rtpc' = [rtpc EXCEPT ![t] = "swap"]
    /\ overlapped' = (overlapped \/ \E u \in Threads \ {t} : InWindow(u))
    /\ UNCHANGED <<rf, rf0, rtargs, rtres, ReentrantRest>>

\* _extractwithoverrides: setattr(self, prop, value)
RSwap(t) ==
    /\ rtpc[t] = "swap"
    /\ rf' = ApplyOverrides(rf, rtloc[t].evaluated)
    /\ rtpc' = [rtpc EXCEPT ![t] = "run"]
    /\ UNCHANGED <<rf0, rtargs, rtloc, rtres, overlapped, ReentrantRest>>

\* _extractwithoverrides: the pipeline, with the attributes the field has now
RRun(t) ==
    /\ rtpc[t] = "run"
    /\ rtloc' = [rtloc EXCEPT ![t].pend = RunPipeline(rf, rtargs[t].data)]
    /\ rtpc' = [rtpc EXCEPT ![t] = "restore"]
    /\ UNCHANGED <<rf, rf0, rtargs, rtres, overlapped, ReentrantRest>>

\* _extractwithoverrides: the finally block, then return or re-raise
RRestore(t) ==
    /\ rtpc[t] = "restore"
    /\ rf' = RestoreOriginals(rf, rtloc[t].originals)
    /\ rtpc' = [rtpc EXCEPT ![t] = "done"]
    /\ rtres' = [rtres EXCEPT ![t] = rtloc[t].pend]
    /\ UNCHANGED <<rf0, rtargs, rtloc, overlapped, ReentrantRest>>

InitReentrant ==
    /\ rf \in ReentrantFields /\ rf0 = rf
    /\ rtargs \in [Threads -> ReentrantArgs]
    /\ rtpc = [t \in Threads |-> "idle"]
    /\ rtloc = [t \in Threads |-> NoFrame]
    /\ rtres = [t \in Threads |-> NoOutcome]
    /\ overlapped = FALSE
    /\ fld = MkField(NoName) /\ snap = fld /\ FieldIdle /\ OtherIdle
    /\ CompIdle /\ AccIdle /\ BoundIdle /\ MetaIdle /\ ValidateIdle /\ ThreadsIdle
    /\ ValidatorIdle /\ PathIdle

NextReentrant ==
    \/ \E t \in Threads : RCall(t)
    \/ \E t \in Threads : RSave(t)
    \/ \E t \in Threads : RSwap(t)
    \/ \E t \in Threads : RRun(t)
    \/ \E t \in Threads : RRestore(t)

SpecReentrant == InitReentrant /\ [][NextReentrant]_vars

---------------------------------------------------------------------------
(* Properties of the scoped override under two threads, under SpecReentrant *)

BothFinished == \A t \in Threads : rtpc[t] = "done"

\* what thread t gets when it extracts alone
AloneResult(t) == ExtractOp(rf0, rtargs[t].data, TRUE, rtargs[t].computed).res

WrongResult(t) == rtres[t] # AloneResult(t)

\* C27: the scoped override is not reentrant-safe.  Extractions whose
\* save .. restore windows do not overlap give each thread the result it gets
\* alone and leave the attributes as they were; that two overlapping
\* extractions need not is shown by the state C27_Witness, where a thread's
\* pipeline ran with the other thread's override and the attributes differ
\* from the original ones although both extractions have finished.
C27_OverrideNotReentrant ==
    (BothFinished /\ ~overlapped) =>
        /\ \A t \in Threads : ~WrongResult(t)
        /\ rf = rf0

\* both threads finished, one of them got the other's override as its value
\* and the field is left with an override as its default
C27_Witness ==
    /\ BothFinished /\ overlapped
    /\ rtargs[1].computed # rtargs[2].computed
    /\ \E t \in Threads : WrongResult(t)
    /\ rf # rf0

---------------------------------------------------------------------------
(* Calls of the fallback in FallbackField.extract, under SpecComposite *)

\* how often child i was extracted by the call
CallCount(i) == Cardinality({j \in 1..Len(ccalls) : ccalls[j] = i})

\* C28: in one call of FallbackField.extract the fallback is extracted at most
\* once, and when its extraction fails that failure is the outcome of the
\* call, both after a primary that raised and after a primary that returned
\* None while not required.
C28_FallbackOnce ==
    CompDone("FallbackField") =>
        /\ CallCount(2) <= 1
        /\ (CallCount(2) > 0 /\ ~Yield(2).ok) => cout = Yield(2)

---------------------------------------------------------------------------
(* The cycle path reported by resolveorder, checked under SpecResolver *)

CyclePath == rerr.wrap

\* C29: whenever resolveorder fails because of a cycle, the path it reports
\* is a genuine cycle of the dependency graph: its first and last names are
\* equal, every name in it is a conditional field of the registry, each name
\* lists the next one among its dependencies, and the placeholder path
\* "unknown cycle" is never reported.
C29_GenuineCycle ==
    rpc = "cycle" =>
        /\ CyclePath # <<"unknown cycle">>
        /\ Len(CyclePath) >= 2
        /\ CyclePath[1] = CyclePath[Len(CyclePath)]
        /\ \A i \in 1..Len(CyclePath) :
             /\ CyclePath[i] \in FieldNames(fields)
             /\ FieldAt(fields, CyclePath[i]).conditional
        /\ \A i \in 1..(Len(CyclePath) - 1) :
             CyclePath[i + 1] \in CondDeps(fields, CyclePath[i])

\* the cycle b -> c -> b is entered from a, which is not on it
C29_Witness ==
    /\ rpc = "cycle"
    /\ fields[1].conditional /\ fields[1].dependencies = <<"b">>
    /\ fields[2].conditional /\ fields[2].dependencies = <<"c">>
    /\ fields[3].conditional /\ fields[3].dependencies = <<"b">>
    /\ CyclePath = <<"b", "c", "b">>

---------------------------------------------------------------------------
(* Conditional fields as children of the composites.  NestedField with a   *)
(* one-segment nestedpath and BoundField.extractonly join the composites;  *)
(* every composite is called with a computed argument.                     *)

\* field @ "n"
NestedField(field, nestedpath) ==
    [cls |-> "NestedField", name |-> field.name, required |-> field.required,
     default |-> field.default, fields |-> <<field>>, nestedpath |-> nestedpath]

\* BoundField(sourcefield, transform=...)
BoundField(sourcefield, transform) ==
    [cls |-> "BoundField", name |-> sourcefield.name, fields |-> <<sourcefield>>,
     transform |-> transform]

\* NestedField._getnesteddata for a path of one segment: current.get(part)
GetNestedData(data, path) ==
    IF path \in DOMAIN data THEN data[path] ELSE NoneV

\* NestedField.extract: navigate, then self.field.extract(nesteddata)
NestedExtract ==
    /\ cpc = "nested"
    /\ IF comp.nestedpath \notin DOMAIN cdata
       THEN /\ cout' = IF comp.required
                       THEN Fail(Err("NestedPathNotFound", {}, NoValue))
                       ELSE Ok(comp.default)
            /\ comp' = comp /\ ccalls' = ccalls
       ELSE LET r == ChildExtract(comp.fields[1], GetNestedData(cdata, comp.nestedpath))
            IN  /\ cout' = r.res
                /\ comp' = [comp EXCEPT !.fields[1] = r.fld]
                /\ ccalls' = Append(ccalls, 1)
    /\ cpc' = "done"
    /\ UNCHANGED <<ccomputed, cdata, ci, cacc, cerrs, fvars, zvars, svars, avars,
                   bvars, mvars, wvars, kvars>>

\* BoundField.extractonly: self.sourcefield.extract(data), then the transform
BoundExtractOnly ==
    /\ cpc = "bound"
    /\ LET r == ChildExtract(comp.fields[1], cdata)
       IN  /\ cout' = IF r.res.ok /\ comp.transform # NoCallable
                      THEN CallTransform(comp.transform, r.res.val)
                      ELSE r.res
           /\ comp' = [comp EXCEPT !.fields[1] = r.fld]
    /\ ccalls' = Append(ccalls, 1)
    /\ cpc' = "done"
    /\ UNCHANGED <<ccomputed, cdata, ci, cacc, cerrs, fvars, zvars, svars, avars,
                   bvars, mvars, wvars, kvars>>

InitCompositeCond ==
    /\ \/ \E p \in CondChildPool : \E f \in CondChildPool : comp = FallbackField(p, f)
       \/ \E n \in 1..MaxChildren :
            \E fs \in [1..n -> CondChildPool] :
              \/ comp = CombinedField(fs)
              \/ \E sep \in Separators : comp = AccumulatedField(fs, sep)
       \/ \E f \in CondChildPool : comp = NestedField(f, "n")
       \/ \E f \in CondChildPool : \E t \in Transforms : comp = BoundField(f, t)
    /\ cdata = <<>> /\ cpc = "idle" /\ ci = 0 /\ cacc = <<>> /\ cerrs = <<>>
    /\ ccalls = <<>> /\ cout = NoOutcome /\ ccomputed = <<>>
    /\ fld = MkField(NoName) /\ snap = fld /\ FieldIdle /\ LaterIdle /\ OtherIdle
    /\ AccIdle /\ BoundIdle /\ MetaIdle /\ ValidateIdle /\ ThreadsIdle

NextCompositeCond ==
    \/ \E d \in CompData \cup NestedData : \E k \in CompComputed : CompCall(d, k)
    \/ FallbackPrimary
    \/ FallbackInTry
    \/ FallbackSecond
    \/ CombinedStep
    \/ CombinedEnd
    \/ AccumulatedStep
    \/ AccumulatedEnd
    \/ NestedExtract
    \/ BoundExtractOnly

SpecCompositeCond == InitCompositeCond /\ [][NextCompositeCond]_vars

---------------------------------------------------------------------------
(* Properties of conditional children, checked under SpecCompositeCond *)

CondChildren == {i \in 1..Len(comp.fields) : comp.fields[i].conditional}
Called(i)    == i \in Elems(ccalls)

\* the error of a conditional Field extracted without computed
RequiresComputed(child) == Fail(Err("RequiresComputed", {child.name}, NoValue))

\* C30: the composites extract their children without computed, whatever
\* computed they were called with: a conditional child always fails with the
\* 'requires computed' error, and the failure is handled like any child
\* failure: FallbackField goes to the fallback, CombinedField and
\* AccumulatedField skip a non-required child and report a required one,
\* NestedField (and BoundField) let it propagate.
C30_ChildrenGetNoComputed ==
    cpc = "done" =>
        /\ CompDone("FallbackField") =>
             /\ 1 \in CondChildren => Called(2)
             /\ (2 \in CondChildren /\ Called(2)) =>
                  cout = RequiresComputed(comp.fields[2])
        /\ CompDone("CombinedField") =>
             \A i \in CondChildren :
               IF comp.fields[i].required
               THEN ~cout.ok /\ comp.fields[i].name \in Elems(cout.err.wrap)
               ELSE /\ cout.ok => comp.fields[i].name \notin Keys(cout.val)
                    /\ ~cout.ok => comp.fields[i].name \notin Elems(cout.err.wrap)
        /\ CompDone("AccumulatedField") =>
             /\ \A i \in CondChildren :
                  (Called(i) /\ comp.fields[i].required) =>
                      /\ ~cout.ok /\ cout.err.kind = "AccumulationFailed"
                      /\ comp.fields[i].name \in cout.err.names
                      /\ ccalls[Len(ccalls)] = i
             /\ Len(cacc) <= Cardinality({i \in Elems(ccalls) : i \notin CondChildren})
        /\ (CompDone("NestedField") /\ 1 \in CondChildren /\ Called(1)) =>
             cout = RequiresComputed(comp.fields[1])
        /\ (CompDone("BoundField") /\ 1 \in CondChildren) =>
             cout = RequiresComputed(comp.fields[1])

\* computed holds b, the dependency of c, yet c fails and the fallback p is used
C30_Witness ==
    /\ CompDone("FallbackField")
    /\ comp.fields = <<ChildC, ChildP>>
    /\ ccomputed.has /\ InComputed(ccomputed.val, "b")
    /\ cdata["p"] = SX
    /\ ccalls = <<1, 2>> /\ cout = Ok(SX)

=============================================================================
